---- MODULE Spec2Model ----
(***************************************************************************)
(* Model of the schedule combination engine of Poletron/Horarios           *)
(* (src/js/services/ScheduleGeneratorService.js): the meeting overlap      *)
(* test, the section filter, the priority search, the conflict diagnostics,*)
(* the candidate augmentation and the deduplicator; and of the hybrid      *)
(* selector that calls it (src/js/components/SectionSelector.js): the      *)
(* selection list, its toggles and the generation request.                 *)
(*                                                                         *)
(* Conventions.  A JavaScript value that may be null/undefined is a        *)
(* sequence of length 0 (null) or 1 (the value).  A time string "HHMM" is  *)
(* the sequence of its four digits, and null/"" is the empty sequence.     *)
(* A string that only has to be compared is a TLA+ string.                 *)
(***************************************************************************)
EXTENDS Integers, Sequences, FiniteSets, TLC

VARIABLES
    \* ---- pure-function harness (SpecPure) ----
    fn,          \* which function is being called: "timesOverlap" | "sectionsConflict" | "none"
    args,        \* its arguments
    ret,         \* its boolean result
    pcPure,      \* "call" before the call, "return" after it, "idle" when unused
    info,        \* the list a diagnostics function returned
    \* ---- generatePossibleSchedulesWithCandidates (Spec) ----
    prioritySubjects,            \* argument
    candidateSubjects,           \* argument
    onlyOpenSections,            \* argument
    selectedCampus,              \* argument ("" = no campus)
    pc,                          \* position inside the function
    filteredPrioritySubjects,    \* const filteredPrioritySubjects  (line 240)
    filteredCandidateSubjects,   \* const filteredCandidateSubjects (line 241)
    prioritySchedules,           \* const prioritySchedules         (line 258)
    result,                      \* the returned object {schedules, errors}
    steps,                       \* the helper calls made so far, in order
    \* ---- a second call with the same arguments (Spec) ----
    calledBefore,                \* TRUE once the caller has called a second time
    firstResult,                 \* what the first call returned
    \* ---- the hybrid selector component (SpecUI) ----
    componentSubjects,           \* data().subjects: the catalog the component holds
    selectedItems,               \* data().selectedItems
    selectionMode,               \* data().selectionMode: "priority" | "candidate"
    pending,                     \* the handlers suspended at an await, with their locals
    generatingSchedules,         \* data().generatingSchedules
    clearAllInvoked,             \* history: onClearAll has run and nothing was selected since
    \* ---- generateCompatibleCombinationsWithSpecificSections, call by call (SpecSearch) ----
    searchSubjects,              \* argument `subjects`
    callStack,                   \* the active calls of combineCompatible, innermost last
    searchPc,                    \* "call" | "running" | "returned" | "idle"
    searchReturn,                \* what the function returned
    \* ---- the filter service and its cache (SpecCache) ----
    searchCache,                 \* _state.searchCache: the entries in insertion order
    cacheCourses,                \* argument `courses` of the last applyFilters call
    cacheFilters,                \* argument `filters` of the last applyFilters call
    cacheReturn,                 \* what the last applyFilters call returned
    cacheCalls                   \* how many calls were made

pureVars == <<fn, args, ret, pcPure, info>>
genVars  == <<prioritySubjects, candidateSubjects, onlyOpenSections, selectedCampus,
              pc, filteredPrioritySubjects, filteredCandidateSubjects,
              prioritySchedules, result, steps>>
callVars == <<calledBefore, firstResult>>
uiVars   == <<componentSubjects, selectedItems, selectionMode, pending, generatingSchedules,
              clearAllInvoked>>
searchVars == <<searchSubjects, callStack, searchPc, searchReturn>>
cacheVars == <<searchCache, cacheCourses, cacheFilters, cacheReturn, cacheCalls>>
vars == <<fn, args, ret, pcPure, info,
          prioritySubjects, candidateSubjects, onlyOpenSections, selectedCampus,
          pc, filteredPrioritySubjects, filteredCandidateSubjects,
          prioritySchedules, result, steps,
          calledBefore, firstResult,
          componentSubjects, selectedItems, selectionMode, pending, generatingSchedules,
          clearAllInvoked,
          searchSubjects, callStack, searchPc, searchReturn,
          searchCache, cacheCourses, cacheFilters, cacheReturn, cacheCalls>>

----------------------------------------------------------------------------
(* Bounds of the model *)

\* last hour of the day used when enumerating "HHMM" strings
MaxHour == 8
\* most meetings (meetingsFaculty entries) of a section in SpecPure
MaxMeetings == 2
\* most priority subjects of a call
MaxPriority == 3
\* most candidate subjects of a call
MaxCandidates == 2
\* most sections of a subject in SpecPure
MaxPoolSections == 2
\* most schedules of a list given to removeDuplicateSchedules in SpecPure
MaxDedupSchedules == 3
\* most items of such a schedule
MaxDedupItems == 2
\* how many subjects of the catalog the subject list of the selector shows
MaxShown == 2
\* most entries of selectedItems
MaxSelected == 2
\* most handlers suspended at an await at a time
MaxPending == 2
\* most handlers suspended at a time where the generation is modelled too
MaxPendingUI == 1
\* most calls of applyFilters that are followed
MaxCacheCalls == 3

----------------------------------------------------------------------------
(* Data *)

Null == <<>>
Some(v) == <<v>>

\* the string "HHMM" for hour h and minute m, as its four digits
HHMM(h, m) == <<h \div 10, h % 10, m \div 10, m % 10>>

\* a meetingTime object with the weekdays of D active
MT(D, b, e) ==
    [monday |-> "monday" \in D, tuesday |-> "tuesday" \in D,
     wednesday |-> "wednesday" \in D, thursday |-> "thursday" \in D,
     friday |-> "friday" \in D, saturday |-> "saturday" \in D,
     sunday |-> "sunday" \in D, beginTime |-> b, endTime |-> e]

\* a meetingsFaculty entry
Meeting(mt) == [meetingTime |-> mt]

----------------------------------------------------------------------------
(* Meeting Overlap Tester *)

\* const toMinutes = timeStr => ...  (parseInt of the two substrings)
toMinutes(timeStr) ==
    IF timeStr = Null THEN 0
    ELSE LET hours == timeStr[1] * 10 + timeStr[2]
             minutes == timeStr[3] * 10 + timeStr[4]
         IN  hours * 60 + minutes

\* faulty variant of timesOverlap: closed intervals, touching end points overlap
timesOverlapClosed(start1, end1, start2, end2) ==
    (toMinutes(start1) <= toMinutes(end2)) /\ (toMinutes(start2) <= toMinutes(end1))

\* faulty variant of timesOverlap: only the first comparison is made
timesOverlapOneSided(start1, end1, start2, end2) ==
    toMinutes(start1) < toMinutes(end2)

timesOverlap(start1, end1, start2, end2) ==
    LET start1Min == toMinutes(start1)
        end1Min == toMinutes(end1)
        start2Min == toMinutes(start2)
        end2Min == toMinutes(end2)
    IN  (start1Min < end2Min) /\ (start2Min < end1Min)

\* faulty variant of shareDay: the day test is skipped
shareDayAlways(mt1, mt2) == TRUE

\* the day test of sectionsConflict (lines 177-183)
shareDay(mt1, mt2) ==
    \/ (mt1.monday /\ mt2.monday)
    \/ (mt1.tuesday /\ mt2.tuesday)
    \/ (mt1.wednesday /\ mt2.wednesday)
    \/ (mt1.thursday /\ mt2.thursday)
    \/ (mt1.friday /\ mt2.friday)
    \/ (mt1.saturday /\ mt2.saturday)
    \/ (mt1.sunday /\ mt2.sunday)

\* the inner loop of sectionsConflict from meeting j of section2 on:
\* TRUE when the loop returns true, FALSE when it runs to its end
RECURSIVE conflictInner(_, _, _)
conflictInner(meeting1, section2, j) ==
    IF j > Len(section2.meetingsFaculty) THEN FALSE
    ELSE LET meeting2 == section2.meetingsFaculty[j] IN
         IF meeting2.meetingTime = Null THEN conflictInner(meeting1, section2, j + 1)
         ELSE LET mt1 == meeting1.meetingTime[1]
                  mt2 == meeting2.meetingTime[1]
              IN  IF shareDay(mt1, mt2)
                     /\ timesOverlap(mt1.beginTime, mt1.endTime, mt2.beginTime, mt2.endTime)
                  THEN TRUE
                  ELSE conflictInner(meeting1, section2, j + 1)

\* the outer loop of sectionsConflict from meeting i of section1 on
RECURSIVE conflictOuter(_, _, _)
conflictOuter(section1, section2, i) ==
    IF i > Len(section1.meetingsFaculty) THEN FALSE
    ELSE LET meeting1 == section1.meetingsFaculty[i] IN
         IF meeting1.meetingTime = Null THEN conflictOuter(section1, section2, i + 1)
         ELSE IF conflictInner(meeting1, section2, 1) THEN TRUE
         ELSE conflictOuter(section1, section2, i + 1)

sectionsConflict(section1, section2) == conflictOuter(section1, section2, 1)

----------------------------------------------------------------------------
(* Section Filter *)

\* lines 310-312: the open-sections step
openStep(sections, onlyOpen) ==
    IF onlyOpen THEN SelectSeq(sections, LAMBDA section : section.openSection)
    ELSE sections

\* faulty variant of campusStep: the campus subset replaces the list even when empty
campusStepStrict(sections, campus) ==
    IF campus # ""
    THEN SelectSeq(sections, LAMBDA section : section.campusDescription = campus)
    ELSE sections

\* lines 315-324: the campus step
campusStep(sections, campus) ==
    IF campus # ""
    THEN LET sectionsInCampus ==
                 SelectSeq(sections, LAMBDA section : section.campusDescription = campus)
         IN  IF Len(sectionsInCampus) > 0 THEN sectionsInCampus ELSE sections
    ELSE sections

filterSubjects(subjects, onlyOpen, campus) ==
    [n \in 1..Len(subjects) |->
        [subjects[n] EXCEPT
            !.sections = campusStep(openStep(subjects[n].sections, onlyOpen), campus)]]

----------------------------------------------------------------------------
(* Cross product and conflict test of a whole schedule *)

\* the schedule item built for a section of a subject
scheduleItem(currentSubject, section) ==
    [subjectId |-> currentSubject.id,
     subject |-> currentSubject.subject,
     courseNumber |-> currentSubject.courseNumber,
     section |-> section]

\* combine(index, currentSchedule) of generateCombinations; index is 0-based
\* as in the source, combineSections is its forEach from section k on
RECURSIVE combine(_, _, _)
RECURSIVE combineSections(_, _, _, _)
combine(subjects, index, currentSchedule) ==
    IF index = Len(subjects) THEN <<currentSchedule>>
    ELSE combineSections(subjects, index, currentSchedule, 1)

combineSections(subjects, index, currentSchedule, k) ==
    LET currentSubject == subjects[index + 1] IN
    IF k > Len(currentSubject.sections) THEN <<>>
    ELSE LET newSchedule ==
                 Append(currentSchedule, scheduleItem(currentSubject, currentSubject.sections[k]))
         IN  combine(subjects, index + 1, newSchedule)
                 \o combineSections(subjects, index, currentSchedule, k + 1)

generateCombinations(subjects) ==
    IF Len(subjects) = 0 THEN <<>> ELSE combine(subjects, 0, <<>>)

hasScheduleConflict(schedule) ==
    \E i \in 1..(Len(schedule) - 1) :
        \E j \in (i + 1)..Len(schedule) :
            sectionsConflict(schedule[i].section, schedule[j].section)

----------------------------------------------------------------------------
(* Priority Combination Search *)

\* faulty variant of alreadyHasThisSubject: the course number is not compared
alreadyHasThisSubjectByCode(currentSchedule, currentSubject) ==
    \E n \in 1..Len(currentSchedule) :
        currentSchedule[n].subject = currentSubject.subject

\* lines 669-672
alreadyHasThisSubject(currentSchedule, currentSubject) ==
    \E n \in 1..Len(currentSchedule) :
        /\ currentSchedule[n].subject = currentSubject.subject
        /\ currentSchedule[n].courseNumber = currentSubject.courseNumber

\* faulty variant of isCompatible: only the last chosen section is tested
isCompatibleWithLast(currentSchedule, section) ==
    \/ Len(currentSchedule) = 0
    \/ ~sectionsConflict(currentSchedule[Len(currentSchedule)].section, section)

\* faulty variant of isCompatible: the negation is missing
isCompatibleInverted(currentSchedule, section) ==
    \A n \in 1..Len(currentSchedule) :
        sectionsConflict(currentSchedule[n].section, section)

\* lines 690-692 and 585-587: currentSchedule.every(item => !sectionsConflict(item.section, section))
isCompatible(currentSchedule, section) ==
    \A n \in 1..Len(currentSchedule) :
        ~sectionsConflict(currentSchedule[n].section, section)

\* combineCompatible(index, currentSchedule); compatibleSections is its for loop
\* from section k on
RECURSIVE combineCompatible(_, _, _)
RECURSIVE compatibleSections(_, _, _, _)
combineCompatible(subjects, index, currentSchedule) ==
    IF index = Len(subjects) THEN <<currentSchedule>>
    ELSE compatibleSections(subjects, index, currentSchedule, 1)

compatibleSections(subjects, index, currentSchedule, k) ==
    LET currentSubject == subjects[index + 1] IN
    IF k > Len(currentSubject.sections) THEN <<>>
    ELSE LET section == currentSubject.sections[k]
             rest == compatibleSections(subjects, index, currentSchedule, k + 1)
         IN  IF alreadyHasThisSubject(currentSchedule, currentSubject) THEN rest
             ELSE IF isCompatible(currentSchedule, section)
             THEN combineCompatible(subjects, index + 1,
                      Append(currentSchedule, scheduleItem(currentSubject, section)))
                  \o rest
             ELSE rest

generateCompatibleCombinationsWithSpecificSections(subjects) ==
    IF Len(subjects) = 0 THEN <<>> ELSE combineCompatible(subjects, 0, <<>>)

----------------------------------------------------------------------------
(* Deduplicator *)

\* Array.prototype.sort on the section ids: insertion of x into a sorted list.
\* The ids of the model are single digits, for which the default (string)
\* order of sort() is the numeric order.
RECURSIVE insertSorted(_, _)
insertSorted(x, sorted) ==
    IF sorted = <<>> THEN <<x>>
    ELSE IF x <= Head(sorted) THEN <<x>> \o sorted
    ELSE <<Head(sorted)>> \o insertSorted(x, Tail(sorted))

RECURSIVE sortIds(_)
sortIds(ids) ==
    IF ids = <<>> THEN <<>> ELSE insertSorted(Head(ids), sortIds(Tail(ids)))

\* faulty variant of scheduleKey: the ids are joined without being sorted
scheduleKeyUnsorted(schedule) ==
    [n \in 1..Len(schedule) |-> schedule[n].section.id]

\* lines 624-627: the sorted id list stands for its join with '-'
scheduleKey(schedule) ==
    sortIds([n \in 1..Len(schedule) |-> schedule[n].section.id])

\* the forEach of removeDuplicateSchedules from schedule n on
RECURSIVE dedupFrom(_, _, _, _)
dedupFrom(schedules, n, seenSchedules, uniqueSchedules) ==
    IF n > Len(schedules) THEN uniqueSchedules
    ELSE LET key == scheduleKey(schedules[n]) IN
         IF key \notin seenSchedules
         THEN dedupFrom(schedules, n + 1, seenSchedules \cup {key},
                        Append(uniqueSchedules, schedules[n]))
         ELSE dedupFrom(schedules, n + 1, seenSchedules, uniqueSchedules)

\* faulty variant of removeDuplicateSchedules: seenSchedules is kept between
\* calls, so a second call starts with the keys of the schedules returned before
removeDuplicateSchedulesKeepingSeen(schedules) ==
    dedupFrom(schedules, 1,
              IF calledBefore
              THEN {scheduleKey(firstResult.schedules[n]) :
                       n \in 1..Len(firstResult.schedules)}
              ELSE {},
              <<>>)

\* lines 619-620: seenSchedules and uniqueSchedules are created by each call
removeDuplicateSchedules(schedules) == dedupFrom(schedules, 1, {}, <<>>)

----------------------------------------------------------------------------
(* Candidate Augmentation *)

\* lines 583-602: the new schedules one current schedule gives with the
\* sections of a candidate subject
extendWith(currentSchedule, candidateSubject) ==
    LET ok == SelectSeq(candidateSubject.sections,
                        LAMBDA section : isCompatible(currentSchedule, section))
    IN  [k \in 1..Len(ok) |-> Append(currentSchedule, scheduleItem(candidateSubject, ok[k]))]

\* lines 581-603: newSchedules, from enhanced schedule n on
RECURSIVE newSchedulesFrom(_, _, _)
newSchedulesFrom(enhancedSchedules, candidateSubject, n) ==
    IF n > Len(enhancedSchedules) THEN <<>>
    ELSE extendWith(enhancedSchedules[n], candidateSubject)
             \o newSchedulesFrom(enhancedSchedules, candidateSubject, n + 1)

\* faulty variant of foldCandidates: the schedules without the candidate are dropped
\* whenever the candidate can be added
RECURSIVE foldCandidatesReplacing(_, _, _)
foldCandidatesReplacing(enhancedSchedules, candidates, c) ==
    IF c > Len(candidates) THEN enhancedSchedules
    ELSE LET new == newSchedulesFrom(enhancedSchedules, candidates[c], 1) IN
         foldCandidatesReplacing(IF new = <<>> THEN enhancedSchedules ELSE new,
                                 candidates, c + 1)

\* faulty variant of foldCandidates: the new schedules of a candidate are
\* pushed onto the working list twice
RECURSIVE foldCandidatesPushingTwice(_, _, _)
foldCandidatesPushingTwice(enhancedSchedules, candidates, c) ==
    IF c > Len(candidates) THEN enhancedSchedules
    ELSE LET new == newSchedulesFrom(enhancedSchedules, candidates[c], 1) IN
         foldCandidatesPushingTwice(enhancedSchedules \o new \o new, candidates, c + 1)

\* lines 578-607: the forEach over the candidate subjects, from candidate c on
RECURSIVE foldCandidates(_, _, _)
foldCandidates(enhancedSchedules, candidates, c) ==
    IF c > Len(candidates) THEN enhancedSchedules
    ELSE foldCandidates(
             enhancedSchedules \o newSchedulesFrom(enhancedSchedules, candidates[c], 1),
             candidates, c + 1)

\* faulty variant of addCandidateSubjects: the priority schedule itself is left
\* out whenever some candidate section could be added to it
addCandidateSubjectsDroppingOriginal(prioritySchedule, candidates) ==
    LET all == removeDuplicateSchedules(foldCandidates(<<prioritySchedule>>, candidates, 1))
    IN  IF Len(all) > 1 THEN Tail(all) ELSE all

addCandidateSubjects(prioritySchedule, candidates) ==
    removeDuplicateSchedules(foldCandidates(<<prioritySchedule>>, candidates, 1))

----------------------------------------------------------------------------
(* Messages of the errors list: one record shape for every message *)

Msg(kind, subject1, subject2, reason, detail) ==
    [kind |-> kind, subject1 |-> subject1, subject2 |-> subject2,
     reason |-> reason, detail |-> detail]

\* `${subject.subject}${subject.courseNumber}`
subjectName(subject) == subject.id

----------------------------------------------------------------------------
(* Conflict Diagnostics *)

RECURSIVE concatAll(_)
concatAll(seqs) == IF seqs = <<>> THEN <<>> ELSE Head(seqs) \o concatAll(Tail(seqs))

\* formatTime: "HHMM" -> "HH:MM", anything else unchanged
formatTime(timeStr) ==
    IF timeStr = Null \/ Len(timeStr) # 4 THEN timeStr
    ELSE <<timeStr[1], timeStr[2], ":", timeStr[3], timeStr[4]>>

\* lines 520-527
sharedDaysOf(mt1, mt2) ==
    (IF mt1.monday /\ mt2.monday THEN <<"lunes">> ELSE <<>>)
    \o (IF mt1.tuesday /\ mt2.tuesday THEN <<"martes">> ELSE <<>>)
    \o (IF mt1.wednesday /\ mt2.wednesday THEN <<"miercoles">> ELSE <<>>)
    \o (IF mt1.thursday /\ mt2.thursday THEN <<"jueves">> ELSE <<>>)
    \o (IF mt1.friday /\ mt2.friday THEN <<"viernes">> ELSE <<>>)
    \o (IF mt1.saturday /\ mt2.saturday THEN <<"sabado">> ELSE <<>>)
    \o (IF mt1.sunday /\ mt2.sunday THEN <<"domingo">> ELSE <<>>)

\* lines 509-536 for one pair of meetings: the pushed entry, if any
meetingConflictInfo(meeting1, meeting2) ==
    IF meeting1.meetingTime = Null \/ meeting2.meetingTime = Null THEN <<>>
    ELSE LET mt1 == meeting1.meetingTime[1]
             mt2 == meeting2.meetingTime[1]
             sharedDays == sharedDaysOf(mt1, mt2)
         IN  IF Len(sharedDays) > 0
                /\ timesOverlap(mt1.beginTime, mt1.endTime, mt2.beginTime, mt2.endTime)
             THEN <<[sharedDays |-> sharedDays,
                     time1 |-> <<formatTime(mt1.beginTime), formatTime(mt1.endTime)>>,
                     time2 |-> <<formatTime(mt2.beginTime), formatTime(mt2.endTime)>>]>>
             ELSE <<>>

\* the list `conflicts` of getSpecificConflictInfo; its join(', ') is the
\* empty string exactly when the list is empty
getSpecificConflictInfo(section1, section2) ==
    concatAll([i \in 1..Len(section1.meetingsFaculty) |->
        concatAll([j \in 1..Len(section2.meetingsFaculty) |->
            meetingConflictInfo(section1.meetingsFaculty[i], section2.meetingsFaculty[j])])])

\* section.courseReferenceNumber || section.id
nrcOf(section) ==
    IF section.courseReferenceNumber = Null THEN section.id
    ELSE section.courseReferenceNumber[1]

\* faulty variant of getDetailedConflictInfo: only the first conflicting pair of
\* sections is described
getDetailedConflictInfoFirstOnly(subject1, subject2) ==
    LET all == concatAll([a \in 1..Len(subject1.sections) |->
                   concatAll([b \in 1..Len(subject2.sections) |->
                       LET section1 == subject1.sections[a]
                           section2 == subject2.sections[b]
                           conflictInfo == getSpecificConflictInfo(section1, section2)
                       IN  IF sectionsConflict(section1, section2) /\ conflictInfo # <<>>
                           THEN <<[nrc1 |-> nrcOf(section1), nrc2 |-> nrcOf(section2),
                                   info |-> conflictInfo]>>
                           ELSE <<>>])])
    IN  IF all = <<>> THEN <<>> ELSE <<all[1]>>

getDetailedConflictInfo(subject1, subject2) ==
    concatAll([a \in 1..Len(subject1.sections) |->
        concatAll([b \in 1..Len(subject2.sections) |->
            LET section1 == subject1.sections[a]
                section2 == subject2.sections[b]
                conflictInfo == getSpecificConflictInfo(section1, section2)
            IN  IF sectionsConflict(section1, section2) /\ conflictInfo # <<>>
                THEN <<[nrc1 |-> nrcOf(section1), nrc2 |-> nrcOf(section2),
                        info |-> conflictInfo]>>
                ELSE <<>>])])

\* faulty variant of hasCompatibleSections: true only when every pair of
\* sections is compatible
hasCompatibleSectionsEvery(subject1, subject2) ==
    \A a \in 1..Len(subject1.sections) :
        \A b \in 1..Len(subject2.sections) :
            ~sectionsConflict(subject1.sections[a], subject2.sections[b])

hasCompatibleSections(subject1, subject2) ==
    \E a \in 1..Len(subject1.sections) :
        \E b \in 1..Len(subject2.sections) :
            ~sectionsConflict(subject1.sections[a], subject2.sections[b])

\* lines 428-449: conflictPairs with their detailedConflicts, in loop order
conflictPairsOf(subjects) ==
    concatAll([i \in 1..Len(subjects) |->
        concatAll([j \in 1..Len(subjects) |->
            IF i < j /\ ~hasCompatibleSections(subjects[i], subjects[j])
            THEN <<[subject1 |-> subjectName(subjects[i]),
                    subject2 |-> subjectName(subjects[j]),
                    details |-> getDetailedConflictInfo(subjects[i], subjects[j])]>>
            ELSE <<>>])])

\* lines 452-470: the suggestions list
suggestionsOf(conflictPairs) ==
    IF Len(conflictPairs) > 0
    THEN <<Msg("conflictsFound", "", "", "", <<>>)>>
         \o concatAll([n \in 1..Len(conflictPairs) |->
                <<Msg("conflictPair", conflictPairs[n].subject1, conflictPairs[n].subject2, "", <<>>)>>
                \o [d \in 1..Len(conflictPairs[n].details) |->
                       Msg("conflictDetail", conflictPairs[n].subject1, conflictPairs[n].subject2,
                           "", <<conflictPairs[n].details[d]>>)]])
         \o <<Msg("suggestionsHeader", "", "", "", <<>>),
              Msg("suggestOtherSections", "", "", "", <<>>),
              Msg("suggestCandidate", "", "", "", <<>>),
              Msg("suggestOfficialSystem", "", "", "", <<>>)>>
    ELSE <<>>

analyzeScheduleConflicts(subjects) ==
    LET conflictPairs == conflictPairsOf(subjects)
    IN  [suggestions |-> suggestionsOf(conflictPairs), conflictPairs |-> conflictPairs]

----------------------------------------------------------------------------
(* The catalog the calls draw their subjects from, as groupCoursesBySubject
   builds it: one subject per subject+courseNumber, every section id unique. *)

Section(id, nrc, open, campus, meetings) ==
    [id |-> id, courseReferenceNumber |-> nrc, openSection |-> open,
     campusDescription |-> campus, meetingsFaculty |-> meetings]

Subject(subject, courseNumber, sections) ==
    [id |-> subject \o courseNumber, subject |-> subject,
     courseNumber |-> courseNumber, sections |-> sections]

Catalog ==
    <<Subject("MATH", "101",
         <<Section(1, Some(11), TRUE, "Montalban",
                   <<Meeting(Some(MT({"monday"}, HHMM(7, 0), HHMM(8, 30))))>>),
           Section(2, Some(12), TRUE, "Guayana",
                   <<Meeting(Some(MT({"tuesday"}, HHMM(7, 0), HHMM(8, 30))))>>)>>),
      Subject("PHYS", "101",
         <<Section(3, Some(13), TRUE, "Montalban",
                   <<Meeting(Some(MT({"monday"}, HHMM(7, 0), HHMM(8, 30))))>>),
           Section(4, Some(14), FALSE, "Guayana",
                   <<Meeting(Some(MT({"monday"}, HHMM(8, 0), HHMM(10, 0))))>>)>>),
      Subject("MATH", "102",
         <<Section(5, Some(15), FALSE, "Guayana", <<Meeting(Null)>>),
           Section(6, Null, TRUE, "Guayana",
                   <<Meeting(Some(MT({"monday"}, HHMM(10, 0), HHMM(11, 0)))),
                     Meeting(Some(MT({"tuesday"}, HHMM(8, 0), HHMM(9, 0))))>>)>>)>>

Campuses == {"", "Montalban"}

\* the elements of seq at the positions of S, in order
Pick(seq, S) ==
    LET n == Cardinality(S)
        f == CHOOSE g \in [1..n -> S] : \A i, j \in 1..n : i < j => g[i] < g[j]
    IN  [i \in 1..n |-> seq[f[i]]]

\* a catalog subject, whole or narrowed to some of its sections
Narrowed ==
    UNION {{[Catalog[c] EXCEPT !.sections = Pick(Catalog[c].sections, S)] :
               S \in (SUBSET (1..Len(Catalog[c].sections))) \ {{}}} :
           c \in 1..Len(Catalog)}

\* the subject lists of at most max subjects, no subject twice in one list
SubjectLists(max) ==
    UNION {{q \in [1..n -> Narrowed] :
               \A i, j \in 1..n : i # j => q[i].id # q[j].id} : n \in 0..max}

----------------------------------------------------------------------------
(* generatePossibleSchedulesWithCandidates, step by step *)

\* lines 249-251
invalidReason(onlyOpen, campus) ==
    IF campus # "" THEN "campus"
    ELSE IF onlyOpen THEN "abiertas" ELSE "disponibles"

\* faulty variant of invalidPriorityErrors: only the first subject without sections
\* is reported
invalidPriorityErrorsFirstOnly(filtered, onlyOpen, campus) ==
    LET invalidPrioritySubjects ==
            SelectSeq(filtered, LAMBDA subject : Len(subject.sections) = 0)
    IN  <<Msg("priorityWithoutSections", subjectName(invalidPrioritySubjects[1]), "",
              invalidReason(onlyOpen, campus), <<>>)>>

\* lines 244 and 248-253
invalidPriorityErrors(filtered, onlyOpen, campus) ==
    LET invalidPrioritySubjects ==
            SelectSeq(filtered, LAMBDA subject : Len(subject.sections) = 0)
    IN  [n \in 1..Len(invalidPrioritySubjects) |->
            Msg("priorityWithoutSections", subjectName(invalidPrioritySubjects[n]), "",
                invalidReason(onlyOpen, campus), <<>>)]

\* lines 284-290
finalSchedulesOf(schedules, candidates) ==
    concatAll([n \in 1..Len(schedules) |-> addCandidateSubjects(schedules[n], candidates)])

Idle ==
    /\ fn = "none" /\ args = <<>> /\ ret = FALSE /\ pcPure = "idle" /\ info = <<>>

\* no second call
IdleCalls ==
    /\ calledBefore = FALSE
    /\ firstResult = [schedules |-> <<>>, errors |-> <<>>]

\* no component
IdleUI ==
    /\ componentSubjects = <<>> /\ selectedItems = <<>> /\ selectionMode = "priority"
    /\ pending = <<>> /\ generatingSchedules = FALSE
    /\ clearAllInvoked = FALSE

\* no search called on its own
IdleSearch ==
    /\ searchSubjects = <<>> /\ callStack = <<>> /\ searchPc = "idle" /\ searchReturn = <<>>

\* no filter service
IdleCache ==
    /\ searchCache = <<>> /\ cacheCourses = <<>> /\ cacheFilters = <<>>
    /\ cacheReturn = <<>> /\ cacheCalls = 0

Init ==
    /\ Idle
    /\ IdleCalls
    /\ IdleUI
    /\ IdleSearch
    /\ IdleCache
    /\ prioritySubjects \in SubjectLists(MaxPriority)
    /\ candidateSubjects \in SubjectLists(MaxCandidates)
    /\ onlyOpenSections \in BOOLEAN
    /\ selectedCampus \in Campuses
    /\ pc = "start"
    /\ filteredPrioritySubjects = <<>>
    /\ filteredCandidateSubjects = <<>>
    /\ prioritySchedules = <<>>
    /\ result = [schedules |-> <<>>, errors |-> <<>>]
    /\ steps = <<>>

\* faulty variant of RejectNoSubjects: the empty selection is answered without
\* a message
RejectNoSubjectsSilently ==
    /\ pc = "start"
    /\ Len(prioritySubjects) = 0 /\ Len(candidateSubjects) = 0
    /\ result' = [schedules |-> <<>>, errors |-> <<>>]
    /\ pc' = "done"
    /\ UNCHANGED <<pureVars, searchVars, cacheVars, callVars, uiVars, prioritySubjects, candidateSubjects, onlyOpenSections,
                   selectedCampus, filteredPrioritySubjects, filteredCandidateSubjects,
                   prioritySchedules, steps>>

\* lines 232-237
RejectNoSubjects ==
    /\ pc = "start"
    /\ Len(prioritySubjects) = 0 /\ Len(candidateSubjects) = 0
    /\ result' = [schedules |-> <<>>,
                  errors |-> <<Msg("selectAtLeastOne", "", "", "", <<>>)>>]
    /\ pc' = "done"
    /\ UNCHANGED <<pureVars, searchVars, cacheVars, callVars, uiVars, prioritySubjects, candidateSubjects, onlyOpenSections,
                   selectedCampus, filteredPrioritySubjects, filteredCandidateSubjects,
                   prioritySchedules, steps>>

\* faulty variant of FilterStep: the section lists of the arguments are
\* filtered in place
FilterStepInPlace ==
    /\ pc = "start"
    /\ ~(Len(prioritySubjects) = 0 /\ Len(candidateSubjects) = 0)
    /\ filteredPrioritySubjects' =
           filterSubjects(prioritySubjects, onlyOpenSections, selectedCampus)
    /\ filteredCandidateSubjects' =
           filterSubjects(candidateSubjects, onlyOpenSections, selectedCampus)
    /\ prioritySubjects' = filteredPrioritySubjects'
    /\ candidateSubjects' = filteredCandidateSubjects'
    /\ steps' = steps \o <<"filterSubjects", "filterSubjects">>
    /\ pc' = "filtered"
    /\ UNCHANGED <<pureVars, searchVars, cacheVars, callVars, uiVars, onlyOpenSections,
                   selectedCampus, prioritySchedules, result>>

\* lines 240-241
FilterStep ==
    /\ pc = "start"
    /\ ~(Len(prioritySubjects) = 0 /\ Len(candidateSubjects) = 0)
    /\ filteredPrioritySubjects' =
           filterSubjects(prioritySubjects, onlyOpenSections, selectedCampus)
    /\ filteredCandidateSubjects' =
           filterSubjects(candidateSubjects, onlyOpenSections, selectedCampus)
    /\ steps' = steps \o <<"filterSubjects", "filterSubjects">>
    /\ pc' = "filtered"
    /\ UNCHANGED <<pureVars, searchVars, cacheVars, callVars, uiVars, prioritySubjects, candidateSubjects, onlyOpenSections,
                   selectedCampus, prioritySchedules, result>>

\* faulty variant of RejectInvalidPriority: a candidate subject without
\* sections is rejected like a priority subject
RejectInvalidSubjects ==
    /\ pc = "filtered"
    /\ \E n \in 1..Len(filteredPrioritySubjects \o filteredCandidateSubjects) :
           Len((filteredPrioritySubjects \o filteredCandidateSubjects)[n].sections) = 0
    /\ result' = [schedules |-> <<>>,
                  errors |-> invalidPriorityErrors(
                                 filteredPrioritySubjects \o filteredCandidateSubjects,
                                 onlyOpenSections, selectedCampus)]
    /\ pc' = "done"
    /\ UNCHANGED <<pureVars, searchVars, cacheVars, callVars, uiVars, prioritySubjects, candidateSubjects, onlyOpenSections,
                   selectedCampus, filteredPrioritySubjects, filteredCandidateSubjects,
                   prioritySchedules, steps>>

\* lines 244-255
RejectInvalidPriority ==
    /\ pc = "filtered"
    /\ \E n \in 1..Len(filteredPrioritySubjects) :
           Len(filteredPrioritySubjects[n].sections) = 0
    /\ result' = [schedules |-> <<>>,
                  errors |-> invalidPriorityErrors(filteredPrioritySubjects,
                                                   onlyOpenSections, selectedCampus)]
    /\ pc' = "done"
    /\ UNCHANGED <<pureVars, searchVars, cacheVars, callVars, uiVars, prioritySubjects, candidateSubjects, onlyOpenSections,
                   selectedCampus, filteredPrioritySubjects, filteredCandidateSubjects,
                   prioritySchedules, steps>>

\* line 258
SearchStep ==
    /\ pc = "filtered"
    /\ \A n \in 1..Len(filteredPrioritySubjects) :
           Len(filteredPrioritySubjects[n].sections) # 0
    /\ prioritySchedules' =
           generateCompatibleCombinationsWithSpecificSections(filteredPrioritySubjects)
    /\ steps' = Append(steps, "generateCompatibleCombinationsWithSpecificSections")
    /\ pc' = "searched"
    /\ UNCHANGED <<pureVars, searchVars, cacheVars, callVars, uiVars, prioritySubjects, candidateSubjects, onlyOpenSections,
                   selectedCampus, filteredPrioritySubjects, filteredCandidateSubjects,
                   result>>

\* faulty variant of ReportConflicts: a best-effort schedule (the first
\* combination of the cross product) is returned together with the messages
ReportConflictsWithBestEffort ==
    /\ pc = "searched"
    /\ Len(prioritySchedules) = 0
    /\ LET conflictAnalysis == analyzeScheduleConflicts(filteredPrioritySubjects)
           combinations == generateCombinations(filteredPrioritySubjects)
       IN  result' = [schedules |-> IF combinations = <<>> THEN <<>>
                                    ELSE <<combinations[1]>>,
                      errors |-> <<Msg("noScheduleWithoutConflicts", "", "", "", <<>>)>>
                                 \o conflictAnalysis.suggestions]
    /\ steps' = Append(steps, "analyzeScheduleConflicts")
    /\ pc' = "done"
    /\ UNCHANGED <<pureVars, searchVars, cacheVars, callVars, uiVars, prioritySubjects, candidateSubjects, onlyOpenSections,
                   selectedCampus, filteredPrioritySubjects, filteredCandidateSubjects,
                   prioritySchedules>>

\* lines 260-271
ReportConflicts ==
    /\ pc = "searched"
    /\ Len(prioritySchedules) = 0
    /\ LET conflictAnalysis == analyzeScheduleConflicts(filteredPrioritySubjects)
       IN  result' = [schedules |-> <<>>,
                      errors |-> <<Msg("noScheduleWithoutConflicts", "", "", "", <<>>)>>
                                 \o conflictAnalysis.suggestions]
    /\ steps' = Append(steps, "analyzeScheduleConflicts")
    /\ pc' = "done"
    /\ UNCHANGED <<pureVars, searchVars, cacheVars, callVars, uiVars, prioritySubjects, candidateSubjects, onlyOpenSections,
                   selectedCampus, filteredPrioritySubjects, filteredCandidateSubjects,
                   prioritySchedules>>

\* lines 274-281
ReturnPrioritySchedules ==
    /\ pc = "searched"
    /\ Len(prioritySchedules) # 0
    /\ Len(filteredCandidateSubjects) = 0
    /\ result' = [schedules |-> prioritySchedules, errors |-> <<>>]
    /\ pc' = "done"
    /\ UNCHANGED <<pureVars, searchVars, cacheVars, callVars, uiVars, prioritySubjects, candidateSubjects, onlyOpenSections,
                   selectedCampus, filteredPrioritySubjects, filteredCandidateSubjects,
                   prioritySchedules, steps>>

\* lines 284-297
AddCandidatesStep ==
    /\ pc = "searched"
    /\ Len(prioritySchedules) # 0
    /\ Len(filteredCandidateSubjects) # 0
    /\ result' = [schedules |-> finalSchedulesOf(prioritySchedules, filteredCandidateSubjects),
                  errors |-> <<>>]
    /\ steps' = Append(steps, "addCandidateSubjects")
    /\ pc' = "done"
    /\ UNCHANGED <<pureVars, searchVars, cacheVars, callVars, uiVars, prioritySubjects, candidateSubjects, onlyOpenSections,
                   selectedCampus, filteredPrioritySubjects, filteredCandidateSubjects,
                   prioritySchedules>>

\* the caller calls generatePossibleSchedulesWithCandidates again with the
\* arguments of the call that has returned; the locals of the new call are new
CallAgain ==
    /\ pc = "done"
    /\ ~calledBefore
    /\ calledBefore' = TRUE
    /\ firstResult' = result
    /\ pc' = "start"
    /\ filteredPrioritySubjects' = <<>>
    /\ filteredCandidateSubjects' = <<>>
    /\ prioritySchedules' = <<>>
    /\ steps' = <<>>
    /\ UNCHANGED <<pureVars, searchVars, cacheVars, uiVars, prioritySubjects, candidateSubjects,
                   onlyOpenSections, selectedCampus, result>>

Next ==
    \/ RejectNoSubjects
    \/ FilterStep
    \/ RejectInvalidPriority
    \/ SearchStep
    \/ ReportConflicts
    \/ ReturnPrioritySchedules
    \/ AddCandidatesStep
    \/ CallAgain

Spec == Init /\ [][Next]_vars

----------------------------------------------------------------------------
(* The pure functions called on their own: SpecPure *)

\* the "HHMM" strings of the harness, and null
TimeStrings == {Null} \cup {HHMM(h, m) : h \in 7..MaxHour, m \in {0, 30}}

\* the meetingsFaculty entries of the harness: no meetingTime, a meetingTime
\* without days or times, and meetings that touch, overlap or are on other days
MeetingPool ==
    {Meeting(Null),
     Meeting(Some(MT({}, Null, Null))),
     Meeting(Some(MT({"monday"}, HHMM(7, 0), HHMM(8, 30)))),
     Meeting(Some(MT({"monday", "wednesday"}, HHMM(8, 30), HHMM(10, 0)))),
     Meeting(Some(MT({"tuesday"}, HHMM(7, 0), HHMM(8, 30)))),
     Meeting(Some(MT({"wednesday", "tuesday"}, HHMM(8, 0), HHMM(9, 0))))}

SectionPool ==
    UNION {{Section(0, Null, TRUE, "", ms) : ms \in [1..n -> MeetingPool]} :
           n \in 0..MaxMeetings}

\* the subjects of the harness: up to MaxPoolSections sections of one meeting
\* each, with the ids base + 1, base + 2, ... and no NRC
PoolSubjects(name, base) ==
    UNION {{Subject(name, "100",
                    [k \in 1..n |-> Section(base + k, Null, TRUE, "", <<ms[k]>>)]) :
               ms \in [1..n -> MeetingPool]} : n \in 1..MaxPoolSections}

\* the schedule items of the harness of removeDuplicateSchedules: a section of
\* the first and a section of the last catalog subject
DedupItems ==
    {scheduleItem(Catalog[1], Catalog[1].sections[1]),
     scheduleItem(Catalog[Len(Catalog)], Catalog[Len(Catalog)].sections[2])}

\* its schedules: any items in any order, also the same item twice
DedupSchedules == UNION {[1..n -> DedupItems] : n \in 0..MaxDedupItems}

DedupInputs == UNION {[1..n -> DedupSchedules] : n \in 0..MaxDedupSchedules}

IdleGen ==
    /\ prioritySubjects = <<>> /\ candidateSubjects = <<>>
    /\ onlyOpenSections = TRUE /\ selectedCampus = ""
    /\ pc = "idle"
    /\ filteredPrioritySubjects = <<>> /\ filteredCandidateSubjects = <<>>
    /\ prioritySchedules = <<>>
    /\ result = [schedules |-> <<>>, errors |-> <<>>]
    /\ steps = <<>>

InitPure ==
    /\ IdleGen
    /\ IdleCalls
    /\ IdleUI
    /\ IdleSearch
    /\ IdleCache
    /\ pcPure = "call"
    /\ ret = FALSE
    /\ info = <<>>
    /\ \/ /\ fn = "timesOverlap"
          /\ args \in TimeStrings \X TimeStrings \X TimeStrings \X TimeStrings
       \/ /\ fn = "sectionsConflict"
          /\ args \in SectionPool \X SectionPool
       \/ /\ fn = "getSpecificConflictInfo"
          /\ args \in SectionPool \X SectionPool
       \/ /\ fn = "analyzeScheduleConflicts"
          /\ args \in PoolSubjects("AAA", 0) \X PoolSubjects("BBB", 10)
       \/ /\ fn = "removeDuplicateSchedules"
          /\ args \in {<<schedules>> : schedules \in DedupInputs}
       \/ /\ fn = "generateCompatibleCombinationsWithSpecificSections"
          /\ args \in PoolSubjects("AAA", 0) \X PoolSubjects("BBB", 10)

CallTimesOverlap ==
    /\ pcPure = "call" /\ fn = "timesOverlap"
    /\ ret' = timesOverlap(args[1], args[2], args[3], args[4])
    /\ pcPure' = "return"
    /\ UNCHANGED <<fn, args, info, genVars, callVars, uiVars,
                   searchVars, cacheVars>>

CallSectionsConflict ==
    /\ pcPure = "call" /\ fn = "sectionsConflict"
    /\ ret' = sectionsConflict(args[1], args[2])
    /\ pcPure' = "return"
    /\ UNCHANGED <<fn, args, info, genVars, callVars, uiVars,
                   searchVars, cacheVars>>

CallGetSpecificConflictInfo ==
    /\ pcPure = "call" /\ fn = "getSpecificConflictInfo"
    /\ info' = getSpecificConflictInfo(args[1], args[2])
    /\ pcPure' = "return"
    /\ UNCHANGED <<fn, args, ret, genVars, callVars, uiVars,
                   searchVars, cacheVars>>

\* analyzeScheduleConflicts on two subjects; info is the suggestions list
CallAnalyzeScheduleConflicts ==
    /\ pcPure = "call" /\ fn = "analyzeScheduleConflicts"
    /\ info' = analyzeScheduleConflicts(<<args[1], args[2]>>).suggestions
    /\ pcPure' = "return"
    /\ UNCHANGED <<fn, args, ret, genVars, callVars, uiVars,
                   searchVars, cacheVars>>

\* removeDuplicateSchedules on a list of schedules; info is the returned list
CallRemoveDuplicateSchedules ==
    /\ pcPure = "call" /\ fn = "removeDuplicateSchedules"
    /\ info' = removeDuplicateSchedules(args[1])
    /\ pcPure' = "return"
    /\ UNCHANGED <<fn, args, ret, genVars, callVars, uiVars,
                   searchVars, cacheVars>>

\* generateCompatibleCombinationsWithSpecificSections on two subjects; info
\* is the returned list of combinations
CallGenerateCompatibleCombinations ==
    /\ pcPure = "call" /\ fn = "generateCompatibleCombinationsWithSpecificSections"
    /\ info' = generateCompatibleCombinationsWithSpecificSections(<<args[1], args[2]>>)
    /\ pcPure' = "return"
    /\ UNCHANGED <<fn, args, ret, genVars, callVars, uiVars,
                   searchVars, cacheVars>>

NextPure ==
    \/ CallTimesOverlap
    \/ CallSectionsConflict
    \/ CallGetSpecificConflictInfo
    \/ CallAnalyzeScheduleConflicts
    \/ CallRemoveDuplicateSchedules
    \/ CallGenerateCompatibleCombinations

SpecPure == InitPure /\ [][NextPure]_vars

----------------------------------------------------------------------------
(* generateCompatibleCombinationsWithSpecificSections, call by call:
   SpecSearch.  callStack holds the active calls of combineCompatible; a step
   is one test of the base case, one iteration of the for loop, or one
   return. *)

\* most subjects of a search called on its own
MaxSearchSubjects == 3

\* a call combineCompatible(index, currentSchedule) at the start of its for
\* loop; k is the position of the next section of the loop (1-based) and
\* validCombinations the local of that name
Frame(index, currentSchedule) ==
    [index |-> index, currentSchedule |-> currentSchedule, k |-> 1,
     validCombinations |-> <<>>]

\* the subjects of a search: the catalog subjects, whole, narrowed or without
\* any section
SearchSubjectPool ==
    Narrowed \cup {[Catalog[c] EXCEPT !.sections = <<>>] : c \in 1..Len(Catalog)}

\* the subject lists of a search; a subject may be listed more than once
SearchInputs == UNION {[1..n -> SearchSubjectPool] : n \in 0..MaxSearchSubjects}

InitSearch ==
    /\ Idle
    /\ IdleGen
    /\ IdleCalls
    /\ IdleUI
    /\ IdleCache
    /\ searchSubjects \in SearchInputs
    /\ callStack = <<>>
    /\ searchPc = "call"
    /\ searchReturn = <<>>

\* the innermost active call
TopFrame == callStack[Len(callStack)]

\* the subject of the innermost call: subjects[index]
TopSubject == searchSubjects[TopFrame.index + 1]

\* the section the for loop of the innermost call is at
TopSection == TopSubject.sections[TopFrame.k]

InLoop ==
    /\ searchPc = "running"
    /\ TopFrame.index # Len(searchSubjects)
    /\ TopFrame.k <= Len(TopSubject.sections)

\* line 654: if (subjects.length === 0) return [];
ReturnNoSubjects ==
    /\ searchPc = "call"
    /\ Len(searchSubjects) = 0
    /\ searchReturn' = <<>>
    /\ searchPc' = "returned"
    /\ UNCHANGED <<pureVars, genVars, callVars, uiVars, cacheVars, searchSubjects, callStack>>

\* line 706: return combineCompatible(0, []);
EnterSearch ==
    /\ searchPc = "call"
    /\ Len(searchSubjects) # 0
    /\ callStack' = <<Frame(0, <<>>)>>
    /\ searchPc' = "running"
    /\ UNCHANGED <<pureVars, genVars, callVars, uiVars, cacheVars, searchSubjects, searchReturn>>

\* the innermost call returns `value`: to the call that made it, which pushes
\* the value onto its validCombinations (line 698) and goes on with its loop,
\* or, for the outermost call, to the caller of the function
ReturnValue(value) ==
    IF Len(callStack) = 1
    THEN /\ callStack' = <<>>
         /\ searchReturn' = value
         /\ searchPc' = "returned"
    ELSE /\ callStack' =
                [SubSeq(callStack, 1, Len(callStack) - 1) EXCEPT
                    ![Len(callStack) - 1].validCombinations = @ \o value,
                    ![Len(callStack) - 1].k = @ + 1]
         /\ UNCHANGED <<searchReturn, searchPc>>

\* lines 659-661: if (index === subjects.length) return [currentSchedule];
BaseCase ==
    /\ searchPc = "running"
    /\ TopFrame.index = Len(searchSubjects)
    /\ ReturnValue(<<TopFrame.currentSchedule>>)
    /\ UNCHANGED <<pureVars, genVars, callVars, uiVars, cacheVars, searchSubjects>>

\* lines 669-677 and 690-694: the section is passed over, because the schedule
\* already has this subject or because the section conflicts
SkipSection ==
    /\ InLoop
    /\ \/ alreadyHasThisSubject(TopFrame.currentSchedule, TopSubject)
       \/ ~isCompatible(TopFrame.currentSchedule, TopSection)
    /\ callStack' = [callStack EXCEPT ![Len(callStack)].k = @ + 1]
    /\ UNCHANGED <<pureVars, genVars, callVars, uiVars, cacheVars, searchSubjects,
                   searchPc, searchReturn>>

\* faulty variant of Recurse: the recursive call is made with index instead of
\* index + 1
RecurseSameIndex ==
    /\ InLoop
    /\ ~alreadyHasThisSubject(TopFrame.currentSchedule, TopSubject)
    /\ isCompatible(TopFrame.currentSchedule, TopSection)
    /\ callStack' = Append(callStack,
           Frame(TopFrame.index,
                 Append(TopFrame.currentSchedule, scheduleItem(TopSubject, TopSection))))
    /\ UNCHANGED <<pureVars, genVars, callVars, uiVars, cacheVars, searchSubjects,
                   searchPc, searchReturn>>

\* lines 694-697: combineCompatible(index + 1, [...currentSchedule, scheduleItem])
Recurse ==
    /\ InLoop
    /\ ~alreadyHasThisSubject(TopFrame.currentSchedule, TopSubject)
    /\ isCompatible(TopFrame.currentSchedule, TopSection)
    /\ callStack' = Append(callStack,
           Frame(TopFrame.index + 1,
                 Append(TopFrame.currentSchedule, scheduleItem(TopSubject, TopSection))))
    /\ UNCHANGED <<pureVars, genVars, callVars, uiVars, cacheVars, searchSubjects,
                   searchPc, searchReturn>>

\* line 702: return validCombinations, after the last section
LoopEnd ==
    /\ searchPc = "running"
    /\ TopFrame.index # Len(searchSubjects)
    /\ TopFrame.k > Len(TopSubject.sections)
    /\ ReturnValue(TopFrame.validCombinations)
    /\ UNCHANGED <<pureVars, genVars, callVars, uiVars, cacheVars, searchSubjects>>

NextSearch ==
    \/ ReturnNoSubjects
    \/ EnterSearch
    \/ BaseCase
    \/ SkipSection
    \/ Recurse
    \/ LoopEnd

SpecSearch == InitSearch /\ [][NextSearch]_vars

\* a call that has started keeps running until it returns
SpecSearchLive == SpecSearch /\ WF_vars(NextSearch)

----------------------------------------------------------------------------
(* The hybrid selector component (src/js/components/SectionSelector.js):
   SpecUI.  A handler runs to its first await in one step; what it does after
   the await is a later step, and it keeps the locals it had before.  The
   call of the engine is made of the steps of Spec; no handler runs while it
   is in progress. *)

\* an entry of selectedItems.  item.item is a reference: of a subject entry,
\* to the subject at position `subject` of data().subjects; of a section
\* entry, to the section object with the id `section`
SubjectItem(c, mode) ==
    [type |-> "subject", subject |-> c, section |-> 0, selectionType |-> mode]

SectionItem(c, sectionId, mode) ==
    [type |-> "section", subject |-> c, section |-> sectionId, selectionType |-> mode]

\* the section object with an id (section objects are never changed)
sectionById(sectionId) ==
    LET c == CHOOSE c \in 1..Len(Catalog) :
                 \E k \in 1..Len(Catalog[c].sections) : Catalog[c].sections[k].id = sectionId
        k == CHOOSE k \in 1..Len(Catalog[c].sections) : Catalog[c].sections[k].id = sectionId
    IN  Catalog[c].sections[k]

\* Array.prototype.findIndex, 1-based; 0 stands for -1
findIndex(items, P(_)) ==
    IF \E n \in 1..Len(items) : P(items[n])
    THEN CHOOSE n \in 1..Len(items) :
             P(items[n]) /\ \A m \in 1..(n - 1) : ~P(items[m])
    ELSE 0

\* items.splice(index, 1)
splice(items, index) ==
    IF index \in 1..Len(items)
    THEN SubSeq(items, 1, index - 1) \o SubSeq(items, index + 1, Len(items))
    ELSE items

\* the computed properties prioritySubjects, candidateSubjects,
\* prioritySections and candidateSections
itemsOf(type, mode) ==
    SelectSeq(selectedItems, LAMBDA item : item.type = type /\ item.selectionType = mode)

\* the forEach of groupSectionsBySubject from entry n on; grouped is
\* Object.values(grouped), in the order the keys were inserted
RECURSIVE groupFrom(_, _, _)
groupFrom(sections, n, grouped) ==
    IF n > Len(sections) THEN grouped
    ELSE LET item == sections[n]
             at == {g \in 1..Len(grouped) : grouped[g].subject = item.subject}
         IN  IF at = {}
             THEN groupFrom(sections, n + 1,
                      Append(grouped, [subject |-> item.subject,
                                       sections |-> <<sectionById(item.section)>>]))
             ELSE LET g == CHOOSE g \in at : TRUE IN
                  groupFrom(sections, n + 1,
                      [grouped EXCEPT ![g].sections = Append(@, sectionById(item.section))])

groupSectionsBySubject(sections) == groupFrom(sections, 1, <<>>)

\* the subjects selected as a whole in a mode, as positions of data().subjects
wholeSubjects(mode) ==
    LET items == itemsOf("subject", mode)
    IN  [n \in 1..Len(items) |-> items[n].subject]

\* combineSubjectsAndSections, its effect on data().subjects: the section list
\* of a subject selected as a whole is replaced by the selected sections
subjectsAfterCombine(current, mode) ==
    LET whole == wholeSubjects(mode)
        grouped == groupSectionsBySubject(itemsOf("section", mode))
    IN  [c \in 1..Len(current) |->
            IF /\ \E n \in 1..Len(whole) : whole[n] = c
               /\ \E g \in 1..Len(grouped) : grouped[g].subject = c
            THEN LET g == CHOOSE g \in 1..Len(grouped) : grouped[g].subject = c
                 IN  [current[c] EXCEPT !.sections = grouped[g].sections]
            ELSE current[c]]

\* combineSubjectsAndSections, the list it returns: the subjects selected as a
\* whole, as they are after the replacement, then a new subject for each group
\* of sections whose subject is not selected as a whole
combineSubjectsAndSections(current, mode) ==
    LET whole == wholeSubjects(mode)
        grouped == groupSectionsBySubject(itemsOf("section", mode))
        after == subjectsAfterCombine(current, mode)
        added == SelectSeq(grouped,
                     LAMBDA group : \A n \in 1..Len(whole) : whole[n] # group.subject)
    IN  [n \in 1..Len(whole) |-> after[whole[n]]]
        \o [n \in 1..Len(added) |->
               [Catalog[added[n].subject] EXCEPT !.sections = added[n].sections]]

\* the subjects the subject list shows
Shown == 1..(IF MaxShown < Len(Catalog) THEN MaxShown ELSE Len(Catalog))

\* no handler runs while the engine is being called
HandlersMayRun == pc = "idle"

InitUI ==
    /\ Idle
    /\ IdleCalls
    /\ IdleGen
    /\ IdleSearch
    /\ IdleCache
    /\ componentSubjects = Catalog
    /\ selectedItems = <<>>
    /\ selectionMode = "priority"
    /\ pending = <<>>
    /\ generatingSchedules = FALSE
    /\ clearAllInvoked = FALSE

\* a handler suspended at an await: what it will do and the locals it keeps
\* (index, and subjectId / sectionId / item as type and id)
Suspended(op, index, item, to) ==
    [op |-> op, index |-> index, type |-> item.type,
     id |-> IF item.type = "subject" THEN item.subject ELSE item.section, to |-> to]

\* the effect of toggleSubjectSelection (lines 177-209) on the pair
\* <<selectedItems, pending>>, up to its first await.  card tells whether
\* document.querySelector found the card: without a card there is no await
\* and the splice is done at once
toggleSubject(items, suspended, c, mode, card) ==
    LET index == findIndex(items, LAMBDA item : item.type = "subject" /\ item.subject = c)
    IN  IF index = 0 THEN <<Append(items, SubjectItem(c, mode)), suspended>>
        ELSE IF card
        THEN <<items, Append(suspended, Suspended("splice", index, items[index], ""))>>
        ELSE <<splice(items, index), suspended>>

\* the same for toggleSectionSelection (lines 212-246)
toggleSection(items, suspended, c, sectionId, mode, card) ==
    LET index == findIndex(items,
                     LAMBDA item : item.type = "section" /\ item.section = sectionId)
    IN  IF index = 0 THEN <<Append(items, SectionItem(c, sectionId, mode)), suspended>>
        ELSE IF card
        THEN <<items, Append(suspended, Suspended("splice", index, items[index], ""))>>
        ELSE <<splice(items, index), suspended>>

IsSelected(type, id) ==
    \E n \in 1..Len(selectedItems) :
        /\ selectedItems[n].type = type
        /\ (IF type = "subject" THEN selectedItems[n].subject ELSE selectedItems[n].section) = id

\* lines 177-209, up to the first await: a click on the card of subject c
ToggleSubjectSelection(c) ==
    /\ HandlersMayRun
    /\ LET after == toggleSubject(selectedItems, pending, c, selectionMode, TRUE)
       IN  /\ Len(after[1]) <= MaxSelected
           /\ Len(after[2]) <= MaxPending
           /\ selectedItems' = after[1]
           /\ pending' = after[2]
    /\ clearAllInvoked' = (clearAllInvoked /\ IsSelected("subject", c))
    /\ UNCHANGED <<pureVars, searchVars, cacheVars, genVars, callVars, componentSubjects,
                   selectionMode, generatingSchedules>>

\* lines 212-246, up to the first await: a click on the card of a section; a
\* section that is not selected can be clicked only while its subject card
\* lists it
ToggleSectionSelection(c, sectionId) ==
    /\ HandlersMayRun
    /\ \/ IsSelected("section", sectionId)
       \/ \E k \in 1..Len(componentSubjects[c].sections) :
              componentSubjects[c].sections[k].id = sectionId
    /\ LET after == toggleSection(selectedItems, pending, c, sectionId, selectionMode, TRUE)
       IN  /\ Len(after[1]) <= MaxSelected
           /\ Len(after[2]) <= MaxPending
           /\ selectedItems' = after[1]
           /\ pending' = after[2]
    /\ clearAllInvoked' = (clearAllInvoked /\ IsSelected("section", sectionId))
    /\ UNCHANGED <<pureVars, searchVars, cacheVars, genVars, callVars, componentSubjects,
                   selectionMode, generatingSchedules>>

\* lines 458-464: onRemoveItem on one entry of the copy of onClearAll, or of
\* the selection panel; card tells whether the card of the entry is in the page
removeItem(items, suspended, item, mode, card) ==
    IF item.type = "subject"
    THEN toggleSubject(items, suspended, item.subject, mode, card)
    ELSE toggleSection(items, suspended, item.subject, item.section, mode, card)

\* lines 458-464: the remove button of entry n of the selection panel
OnRemoveItem(n, card) ==
    /\ HandlersMayRun
    /\ n \in 1..Len(selectedItems)
    /\ LET after == removeItem(selectedItems, pending, selectedItems[n], selectionMode, card)
       IN  /\ Len(after[2]) <= MaxPending
           /\ selectedItems' = after[1]
           /\ pending' = after[2]
    /\ UNCHANGED <<pureVars, searchVars, cacheVars, genVars, callVars, componentSubjects,
                   selectionMode, generatingSchedules, clearAllInvoked>>

\* lines 475-481: the forEach of onClearAll over the copy itemsToRemove, from
\* entry n on; cards[n] tells whether the card of entry n is in the page
RECURSIVE clearFrom(_, _, _, _, _, _)
clearFrom(itemsToRemove, cards, n, items, suspended, mode) ==
    IF n > Len(itemsToRemove) THEN <<items, suspended>>
    ELSE LET after == removeItem(items, suspended, itemsToRemove[n], mode, cards[n])
         IN  clearFrom(itemsToRemove, cards, n + 1, after[1], after[2], mode)

\* lines 475-481
OnClearAll(cards) ==
    /\ HandlersMayRun
    /\ Len(selectedItems) > 0
    /\ LET after == clearFrom(selectedItems, cards, 1, selectedItems, pending, selectionMode)
       IN  /\ Len(after[2]) <= MaxPending
           /\ selectedItems' = after[1]
           /\ pending' = after[2]
    /\ clearAllInvoked' = TRUE
    /\ UNCHANGED <<pureVars, searchVars, cacheVars, genVars, callVars, componentSubjects,
                   selectionMode, generatingSchedules>>

\* lines 207 and 244: this.selectedItems.splice(index, 1) after the animation
CompleteSplice(k) ==
    /\ HandlersMayRun
    /\ k \in 1..Len(pending)
    /\ pending[k].op = "splice"
    /\ selectedItems' = splice(selectedItems, pending[k].index)
    /\ pending' = splice(pending, k)
    /\ UNCHANGED <<pureVars, searchVars, cacheVars, genVars, callVars, componentSubjects,
                   selectionMode, generatingSchedules, clearAllInvoked>>

\* the selectionType the item at an index gets (line 269); the assignment
\* throws when the entry is gone
retype(items, index, to) ==
    IF index \in 1..Len(items)
    THEN [items EXCEPT ![index].selectionType = to]
    ELSE items

\* lines 248-271, up to the await; without a card the assignment of line 269
\* is done at once
ToggleSelectionType(index, card) ==
    /\ HandlersMayRun
    /\ index \in 1..Len(selectedItems)
    /\ LET to == IF selectedItems[index].selectionType = "priority"
                 THEN "candidate" ELSE "priority"
       IN  IF card
           THEN /\ Len(pending) < MaxPending
                /\ pending' = Append(pending,
                       Suspended("retype", index, selectedItems[index], to))
                /\ UNCHANGED selectedItems
           ELSE /\ selectedItems' = retype(selectedItems, index, to)
                /\ UNCHANGED pending
    /\ UNCHANGED <<pureVars, searchVars, cacheVars, genVars, callVars, componentSubjects,
                   selectionMode, generatingSchedules, clearAllInvoked>>

\* line 269 after the animation
CompleteRetype(k) ==
    /\ HandlersMayRun
    /\ k \in 1..Len(pending)
    /\ pending[k].op = "retype"
    /\ selectedItems' = retype(selectedItems, pending[k].index, pending[k].to)
    /\ pending' = splice(pending, k)
    /\ UNCHANGED <<pureVars, searchVars, cacheVars, genVars, callVars, componentSubjects,
                   selectionMode, generatingSchedules, clearAllInvoked>>

\* lines 591 and 599
SetSelectionMode(mode) ==
    /\ HandlersMayRun
    /\ mode # selectionMode
    /\ selectionMode' = mode
    /\ UNCHANGED <<pureVars, searchVars, cacheVars, genVars, callVars, componentSubjects, selectedItems,
                   pending, generatingSchedules, clearAllInvoked>>

\* line 657
SetOnlyOpenSections ==
    /\ HandlersMayRun
    /\ onlyOpenSections' = ~onlyOpenSections
    /\ UNCHANGED <<pureVars, searchVars, cacheVars, callVars, uiVars, prioritySubjects, candidateSubjects,
                   selectedCampus, pc, filteredPrioritySubjects,
                   filteredCandidateSubjects, prioritySchedules, result, steps>>

\* lines 344-361: the handler up to the await of the delay.  The button is
\* disabled while nothing is selected or a generation is in progress.
GenerateStart ==
    /\ HandlersMayRun
    /\ ~generatingSchedules
    /\ Len(selectedItems) > 0
    /\ generatingSchedules' = TRUE
    /\ UNCHANGED <<pureVars, searchVars, cacheVars, genVars, callVars, componentSubjects, selectedItems,
                   selectionMode, pending, clearAllInvoked>>

\* lines 363-384: after the delay, the lists are built and the engine is called
GenerateRun ==
    /\ HandlersMayRun
    /\ generatingSchedules
    /\ LET afterPriority == subjectsAfterCombine(componentSubjects, "priority")
           afterCandidate == subjectsAfterCombine(afterPriority, "candidate")
       IN  /\ componentSubjects' = afterCandidate
           /\ prioritySubjects' = combineSubjectsAndSections(componentSubjects, "priority")
           /\ candidateSubjects' = combineSubjectsAndSections(afterPriority, "candidate")
    /\ pc' = "start"
    /\ UNCHANGED <<pureVars, searchVars, cacheVars, callVars, selectedItems, selectionMode, pending,
                   generatingSchedules, clearAllInvoked, onlyOpenSections, selectedCampus,
                   filteredPrioritySubjects, filteredCandidateSubjects,
                   prioritySchedules, result, steps>>

\* lines 386-411: the result is emitted, the call is over and its locals are gone
GenerateEnd ==
    /\ pc = "done"
    /\ generatingSchedules
    /\ generatingSchedules' = FALSE
    /\ pc' = "idle"
    /\ prioritySubjects' = <<>> /\ candidateSubjects' = <<>>
    /\ filteredPrioritySubjects' = <<>> /\ filteredCandidateSubjects' = <<>>
    /\ prioritySchedules' = <<>>
    /\ result' = [schedules |-> <<>>, errors |-> <<>>]
    /\ steps' = <<>>
    /\ UNCHANGED <<pureVars, searchVars, cacheVars, callVars, componentSubjects, selectedItems, selectionMode,
                   pending, clearAllInvoked, onlyOpenSections, selectedCampus>>

\* the handlers of the selection: the clicks on the cards and on the selection
\* panel, and the handlers resumed after their await
NextHandlers ==
    \/ \E c \in Shown : ToggleSubjectSelection(c)
    \/ \E c \in Shown : \E k \in 1..Len(Catalog[c].sections) :
           ToggleSectionSelection(c, Catalog[c].sections[k].id)
    \/ \E n \in 1..MaxSelected : \E card \in BOOLEAN : OnRemoveItem(n, card)
    \/ \E cards \in [1..Len(selectedItems) -> BOOLEAN] : OnClearAll(cards)
    \/ \E k \in 1..MaxPending : CompleteSplice(k)
    \/ \E index \in 1..MaxSelected : \E card \in BOOLEAN : ToggleSelectionType(index, card)
    \/ \E k \in 1..MaxPending : CompleteRetype(k)
    \/ \E mode \in {"priority", "candidate"} : SetSelectionMode(mode)

\* the selection and its asynchronous handlers alone, without any generation
SpecHandlers == InitUI /\ [][NextHandlers]_vars

\* the whole component: the handlers, with at most MaxPendingUI of them
\* suspended at a time, and the generation
NextUI ==
    \/ NextHandlers /\ Len(pending') <= MaxPendingUI
    \/ SetOnlyOpenSections
    \/ GenerateStart
    \/ GenerateRun
    \/ RejectNoSubjects
    \/ FilterStep
    \/ RejectInvalidPriority
    \/ SearchStep
    \/ ReportConflicts
    \/ ReturnPrioritySchedules
    \/ AddCandidatesStep
    \/ GenerateEnd

SpecUI == InitUI /\ [][NextUI]_vars

----------------------------------------------------------------------------
(* The filter service and its search cache (src/unnamed/part_002)         *)
(* A text is a sequence of one-character strings.                          *)

\* searchCache.size above which applyFilters trims the cache
CacheLimit == 100
\* the entries _clearOldCache keeps
CacheKeep == 50

\* String.prototype.toLowerCase, on the letters the texts of the model use
toLowerCase(text) ==
    [i \in 1..Len(text) |->
        IF text[i] = "M" THEN "m"
        ELSE IF text[i] = "A" THEN "a"
        ELSE IF text[i] = "P" THEN "p"
        ELSE IF text[i] = "H" THEN "h"
        ELSE text[i]]

\* String.prototype.trim
RECURSIVE trim(_)
trim(text) ==
    IF text = <<>> THEN text
    ELSE IF Head(text) = " " THEN trim(Tail(text))
    ELSE IF text[Len(text)] = " " THEN trim(SubSeq(text, 1, Len(text) - 1))
    ELSE text

\* String.prototype.includes
includes(text, searchText) ==
    \E i \in 0..(Len(text) - Len(searchText)) :
        SubSeq(text, i + 1, i + Len(searchText)) = searchText

\* a course as the service reads it
Course(subject, courseNumber, courseTitle, campus, open) ==
    [subject |-> subject, courseNumber |-> courseNumber, courseTitle |-> courseTitle,
     campusDescription |-> campus, openSection |-> open]

CourseMath1 == Course(<<"M", "A">>, <<"1">>, <<"A", "l", "g">>, "Main", TRUE)
CoursePhys1 == Course(<<"P", "H">>, <<"1">>, <<"O", "p", "t">>, "Main", FALSE)
CourseMath2 == Course(<<"M", "A">>, <<"2">>, <<"S", "e", "t">>, "North", FALSE)

\* the course lists the calls are made with: two lists of each length
CourseLists ==
    {<<CourseMath1>>, <<CoursePhys1>>,
     <<CourseMath1, CoursePhys1>>, <<CoursePhys1, CourseMath2>>}

\* a filters object (lines 518-530); professor and schedule stay unset
FilterSet(text, subject, campus, availability) ==
    [text |-> text, subject |-> subject, campus |-> campus, availability |-> availability]

\* the filters the calls are made with
FilterInputs ==
    {FilterSet(<<>>, <<>>, "", "all"),
     FilterSet(<<" ", "m", "A", " ">>, <<>>, "", "all"),
     FilterSet(<<>>, <<"P">>, "", "all"),
     FilterSet(<<>>, <<>>, "Main", "all"),
     FilterSet(<<>>, <<>>, "", "open"),
     FilterSet(<<>>, <<>>, "", "closed")}

\* lines 560-622: applyFilters without its cache
filterCourses(courses, activeFilters) ==
    LET byText ==
            IF trim(activeFilters.text) # <<>>
            THEN LET searchText == trim(toLowerCase(activeFilters.text))
                 IN  SelectSeq(courses, LAMBDA course :
                         \/ includes(toLowerCase(course.subject), searchText)
                         \/ includes(toLowerCase(course.courseNumber), searchText)
                         \/ includes(toLowerCase(course.courseTitle), searchText)
                         \/ includes(toLowerCase(course.subject \o course.courseNumber),
                                     searchText))
            ELSE courses
        bySubject ==
            IF trim(activeFilters.subject) # <<>>
            THEN LET subjectFilter == trim(toLowerCase(activeFilters.subject))
                 IN  SelectSeq(byText, LAMBDA course :
                         includes(toLowerCase(course.subject), subjectFilter))
            ELSE byText
        byCampus ==
            IF activeFilters.campus # ""
            THEN SelectSeq(bySubject, LAMBDA course :
                     course.campusDescription = activeFilters.campus)
            ELSE bySubject
    IN  IF activeFilters.availability # "all"
        THEN LET isOpen == activeFilters.availability = "open"
             IN  SelectSeq(byCampus, LAMBDA course : course.openSection = isOpen)
        ELSE byCampus

\* lines 827-831: the length of the course list, "_", and the base-64 text
\* of the JSON text of the filters.  The filters of the model all have the
\* same properties in the same order, so two of them have the same JSON text
\* only when they are equal
generateCacheKey(courses, filters) == <<Len(courses), filters>>

\* Map.prototype.has and get on the cache, a list of entries in insertion order
cacheHas(cache, cacheKey) == \E i \in 1..Len(cache) : cache[i].key = cacheKey

cacheGet(cache, cacheKey) ==
    cache[CHOOSE i \in 1..Len(cache) : cache[i].key = cacheKey].value

\* lines 836-844: entries.slice(-50)
clearOldCache(cache) ==
    IF Len(cache) <= CacheKeep THEN cache
    ELSE SubSeq(cache, Len(cache) - CacheKeep + 1, Len(cache))

\* lines 550-633, the whole call
applyFilters(cache, courses, activeFilters) ==
    LET cacheKey == generateCacheKey(courses, activeFilters)
    IN  IF cacheHas(cache, cacheKey)
        THEN [cache |-> cache, result |-> cacheGet(cache, cacheKey)]
        ELSE LET filteredCourses == filterCourses(courses, activeFilters)
                 stored == Append(cache, [key |-> cacheKey, value |-> filteredCourses])
             IN  [cache  |-> IF Len(stored) > CacheLimit THEN clearOldCache(stored)
                             ELSE stored,
                  result |-> filteredCourses]

\* the cache after n calls applyFilters([], filters) whose filters differ in
\* their text only (1 to n letters x): every call misses and stores the empty
\* list under its key
FilledCache(n) ==
    [k \in 1..n |->
        LET filters == FilterSet([i \in 1..k |-> "x"], <<>>, "", "all")
        IN  [key |-> generateCacheKey(<<>>, filters),
             value |-> filterCourses(<<>>, filters)]]

\* the service before the calls that are followed: a cache just cleared
\* (line 541), or one call short of its limit
InitCache ==
    /\ Idle
    /\ IdleGen
    /\ IdleCalls
    /\ IdleUI
    /\ IdleSearch
    /\ searchCache \in {<<>>, FilledCache(CacheLimit - 1)}
    /\ cacheCourses = <<>>
    /\ cacheFilters = <<>>
    /\ cacheReturn = <<>>
    /\ cacheCalls = 0

\* lines 550-633: one call applyFilters(courses, filters)
ApplyFilters(courses, filters) ==
    /\ cacheCalls < MaxCacheCalls
    /\ LET after == applyFilters(searchCache, courses, filters)
       IN  /\ searchCache' = after.cache
           /\ cacheReturn' = after.result
    /\ cacheCourses' = courses
    /\ cacheFilters' = filters
    /\ cacheCalls' = cacheCalls + 1
    /\ UNCHANGED <<pureVars, searchVars, genVars, callVars, uiVars>>

\* lines 848-850: clearCache()
ClearCache ==
    /\ searchCache # <<>>
    /\ searchCache' = <<>>
    /\ UNCHANGED <<pureVars, searchVars, genVars, callVars, uiVars,
                   cacheCourses, cacheFilters, cacheReturn, cacheCalls>>

NextCache ==
    \/ \E courses \in CourseLists : \E filters \in FilterInputs :
           ApplyFilters(courses, filters)
    \/ ClearCache

SpecCache == InitCache /\ [][NextCache]_vars

----------------------------------------------------------------------------
(* Properties *)

\* the minutes of the half-open interval [start, end)
MinuteInterval(start, end) ==
    {m \in 0..(24 * 60) : toMinutes(start) <= m /\ m < toMinutes(end)}

ReturnedTimesOverlap == pcPure = "return" /\ fn = "timesOverlap"

\* C4: timesOverlap(start1, end1, start2, end2) is true iff start1 < end2 and
\* start2 < end1 in minutes of the day; for two non-empty intervals that is
\* exactly when [start1, end1) and [start2, end2) have a minute in common; and
\* a meeting that ends when the other begins does not overlap it.
C4_TimesOverlapHalfOpen ==
    ReturnedTimesOverlap =>
        LET s1 == toMinutes(args[1])
            e1 == toMinutes(args[2])
            s2 == toMinutes(args[3])
            e2 == toMinutes(args[4])
        IN  /\ ret <=> (s1 < e2 /\ s2 < e1)
            /\ (s1 < e1 /\ s2 < e2) =>
                   (ret <=> (MinuteInterval(args[1], args[2])
                               \cap MinuteInterval(args[3], args[4]) # {}))
            /\ (e1 = s2 \/ e2 = s1) => ~ret

\* C4 witness: two non-empty meetings, the first ending exactly when the
\* second begins, found not to overlap
C4_Witness ==
    /\ ReturnedTimesOverlap
    /\ toMinutes(args[1]) < toMinutes(args[2])
    /\ toMinutes(args[2]) = toMinutes(args[3])
    /\ toMinutes(args[3]) < toMinutes(args[4])
    /\ ~ret

ActiveDays(mt) ==
    {d \in {"monday", "tuesday", "wednesday", "thursday", "friday", "saturday", "sunday"} :
        CASE d = "monday" -> mt.monday
          [] d = "tuesday" -> mt.tuesday
          [] d = "wednesday" -> mt.wednesday
          [] d = "thursday" -> mt.thursday
          [] d = "friday" -> mt.friday
          [] d = "saturday" -> mt.saturday
          [] d = "sunday" -> mt.sunday}

\* the meetingTime objects of a section (meetings without one are skipped)
MeetingTimes(section) ==
    {section.meetingsFaculty[i].meetingTime[1] :
        i \in {k \in 1..Len(section.meetingsFaculty) :
                  section.meetingsFaculty[k].meetingTime # Null}}

ReturnedSectionsConflict == pcPure = "return" /\ fn = "sectionsConflict"

\* C5: sectionsConflict(s1, s2) is true iff some meeting of s1 and some meeting
\* of s2, both with a meeting time, share an active weekday and overlap in
\* time; so it is false when the sections share no active weekday.
C5_SectionsConflictIffMeetingsOverlap ==
    ReturnedSectionsConflict =>
        LET overlapping ==
                {p \in MeetingTimes(args[1]) \X MeetingTimes(args[2]) :
                    /\ toMinutes(p[1].beginTime) < toMinutes(p[2].endTime)
                    /\ toMinutes(p[2].beginTime) < toMinutes(p[1].endTime)}
            sameDay ==
                {p \in MeetingTimes(args[1]) \X MeetingTimes(args[2]) :
                    ActiveDays(p[1]) \cap ActiveDays(p[2]) # {}}
        IN  /\ ret <=> (overlapping \cap sameDay # {})
            /\ sameDay = {} => ~ret

\* C5 witness: two sections whose meetings overlap in time but share no
\* weekday, found not to conflict
C5_Witness ==
    /\ ReturnedSectionsConflict
    /\ ~ret
    /\ \E p \in MeetingTimes(args[1]) \X MeetingTimes(args[2]) :
           /\ toMinutes(p[1].beginTime) < toMinutes(p[2].endTime)
           /\ toMinutes(p[2].beginTime) < toMinutes(p[1].endTime)
    /\ \A p \in MeetingTimes(args[1]) \X MeetingTimes(args[2]) :
           ActiveDays(p[1]) \cap ActiveDays(p[2]) = {}

----------------------------------------------------------------------------
(* Properties of generatePossibleSchedulesWithCandidates *)

Returned == pc = "done"

Ran(step) == \E n \in 1..Len(steps) : steps[n] = step

\* how many items of a schedule satisfy P
CountItems(schedule, P(_)) == Cardinality({n \in 1..Len(schedule) : P(schedule[n])})

\* C1: every returned schedule is pairwise conflict-free: sectionsConflict is
\* false for the sections of any two distinct items, in either order.
C1_SchedulesConflictFree ==
    Returned =>
        \A k \in 1..Len(result.schedules) :
            LET schedule == result.schedules[k] IN
            \A i, j \in 1..Len(schedule) :
                i # j => ~sectionsConflict(schedule[i].section, schedule[j].section)

\* C1 witness: a call that went through the candidate augmentation and
\* returned a schedule of three sections, two of which meet
C1_Witness ==
    /\ Returned
    /\ Ran("addCandidateSubjects")
    /\ \E k \in 1..Len(result.schedules) :
           /\ Len(result.schedules[k]) >= 3
           /\ CountItems(result.schedules[k],
                         LAMBDA item : MeetingTimes(item.section) # {}) >= 2

\* C2 (as claimed): every returned schedule holds exactly one section of each
\* priority subject, at most one section of each candidate subject, and no
\* two sections of the same subject code (subject + courseNumber).
C2_OneSectionPerSubject ==
    Returned =>
        \A k \in 1..Len(result.schedules) :
            LET schedule == result.schedules[k] IN
            /\ \A p \in 1..Len(prioritySubjects) :
                   CountItems(schedule,
                              LAMBDA item : item.subjectId = prioritySubjects[p].id) = 1
            /\ \A c \in 1..Len(candidateSubjects) :
                   CountItems(schedule,
                              LAMBDA item : item.subjectId = candidateSubjects[c].id) <= 1
            /\ \A i, j \in 1..Len(schedule) :
                   i # j => ~(/\ schedule[i].subject = schedule[j].subject
                              /\ schedule[i].courseNumber = schedule[j].courseNumber)

\* C3: the priority search returns exactly the list that the full cross
\* product of the filtered sections, filtered by "has no conflict", gives.
C3_SearchEqualsFilteredCrossProduct ==
    Ran("generateCompatibleCombinationsWithSpecificSections") =>
        prioritySchedules =
            SelectSeq(generateCombinations(filteredPrioritySubjects),
                      LAMBDA schedule : ~hasScheduleConflict(schedule))

\* C3 witness: a search over two subjects that returned some but not all
\* combinations of the cross product
C3_Witness ==
    /\ Ran("generateCompatibleCombinationsWithSpecificSections")
    /\ Len(filteredPrioritySubjects) >= 2
    /\ Len(prioritySchedules) >= 1
    /\ Len(prioritySchedules) < Len(generateCombinations(filteredPrioritySubjects))

\* the multiset of the section ids of a schedule
IdBag(schedule) ==
    [id \in {schedule[n].section.id : n \in 1..Len(schedule)} |->
        CountItems(schedule, LAMBDA item : item.section.id = id)]

\* C6 (as claimed): no two returned schedules have the same multiset of
\* section ids.
C6_NoDuplicateSchedules ==
    Returned =>
        \A i, j \in 1..Len(result.schedules) :
            i # j => IdBag(result.schedules[i]) # IdBag(result.schedules[j])

\* the choices of C7: per candidate subject, 0 (skip it) or the position of
\* one of its sections
CandidateChoices(candidates) ==
    LET longest == CHOOSE m \in 0..(Len(Catalog) * 4) :
                       /\ \A c \in 1..Len(candidates) : Len(candidates[c].sections) <= m
                       /\ \/ m = 0
                          \/ \E c \in 1..Len(candidates) : Len(candidates[c].sections) = m
    IN  {ch \in [1..Len(candidates) -> 0..longest] :
            \A c \in 1..Len(candidates) : ch[c] <= Len(candidates[c].sections)}

\* the sections a choice adds, in candidate order
AddedItems(candidates, ch) ==
    LET taken == {c \in 1..Len(candidates) : ch[c] # 0}
        items == [c \in 1..Len(candidates) |->
                     IF ch[c] # 0
                     THEN scheduleItem(candidates[c], candidates[c].sections[ch[c]])
                     ELSE scheduleItem(candidates[c], Section(0, Null, TRUE, "", <<>>))]
    IN  Pick(items, taken)

\* a choice is admissible when every added section conflicts with no section
\* of the base and with no other added section
Admissible(base, added) ==
    /\ \A a \in 1..Len(added) : \A b \in 1..Len(base) :
           ~sectionsConflict(base[b].section, added[a].section)
    /\ \A a, b \in 1..Len(added) :
           a # b => ~sectionsConflict(added[a].section, added[b].section)

ExpectedAugmentations(base, candidates) ==
    {base \o AddedItems(candidates, ch) :
        ch \in {c \in CandidateChoices(candidates) :
                   Admissible(base, AddedItems(candidates, c))}}

Range(seq) == {seq[n] : n \in 1..Len(seq)}

\* C7: for every priority schedule, addCandidateSubjects returns exactly the
\* schedules obtained by deciding per candidate subject to skip it or to add
\* one of its sections, restricted to admissible choices: none missing, no
\* other produced.
C7_AugmentationIsAllAdmissibleChoices ==
    Ran("addCandidateSubjects") =>
        \A k \in 1..Len(prioritySchedules) :
            Range(addCandidateSubjects(prioritySchedules[k], filteredCandidateSubjects))
                = ExpectedAugmentations(prioritySchedules[k], filteredCandidateSubjects)

\* C7 witness: an augmentation with two candidate subjects where some section
\* was added, some section was refused, and both candidates were added to one
\* schedule
C7_Witness ==
    /\ Ran("addCandidateSubjects")
    /\ Len(filteredCandidateSubjects) = 2
    /\ \E k \in 1..Len(prioritySchedules) :
           LET base == prioritySchedules[k]
               out == addCandidateSubjects(base, filteredCandidateSubjects)
           IN  /\ \E n \in 1..Len(out) : Len(out[n]) = Len(base) + 2
               /\ \E c \in 1..2 : \E x \in 1..Len(filteredCandidateSubjects[c].sections) :
                      ~isCompatible(base, filteredCandidateSubjects[c].sections[x])

Filtered == Ran("filterSubjects")

\* what C8 says filterSubjects makes of one section list: the positions kept
KeptPositions(sections, onlyOpen, campus) ==
    LET open == {n \in 1..Len(sections) : onlyOpen => sections[n].openSection}
        atCampus == {n \in open : sections[n].campusDescription = campus}
    IN  IF campus # "" /\ atCampus # {} THEN atCampus ELSE open

\* C8 for one subject list and its filtered list
FilterAsClaimed(subjects, filtered) ==
    /\ Len(filtered) = Len(subjects)
    /\ \A n \in 1..Len(subjects) :
           LET before == subjects[n].sections
               after == filtered[n].sections
               openOnly == KeptPositions(before, onlyOpenSections, "")
           IN  /\ filtered[n].id = subjects[n].id
               /\ after = Pick(before, KeptPositions(before, onlyOpenSections, selectedCampus))
               /\ openOnly # {} => Len(after) > 0

\* C8: filterSubjects drops the closed sections when onlyOpen is set, then
\* keeps only the sections at the campus if there is one and leaves the list
\* as it is otherwise; the campus step never empties a non-empty list.
C8_FilterOpenThenCampusWithFallback ==
    Filtered =>
        /\ FilterAsClaimed(prioritySubjects, filteredPrioritySubjects)
        /\ FilterAsClaimed(candidateSubjects, filteredCandidateSubjects)

\* C8 witness: with onlyOpen and a campus set, one subject was narrowed to its
\* sections at the campus and another, with open sections but none at the
\* campus, kept them
C8_Witness ==
    /\ Filtered
    /\ onlyOpenSections /\ selectedCampus # ""
    /\ \E n \in 1..Len(prioritySubjects) :
           /\ Len(filteredPrioritySubjects[n].sections) > 0
           /\ Len(filteredPrioritySubjects[n].sections) < Len(prioritySubjects[n].sections)
           /\ \A k \in 1..Len(filteredPrioritySubjects[n].sections) :
                  filteredPrioritySubjects[n].sections[k].campusDescription = selectedCampus
    /\ \E n \in 1..Len(prioritySubjects) :
           /\ Len(filteredPrioritySubjects[n].sections) > 0
           /\ \A k \in 1..Len(filteredPrioritySubjects[n].sections) :
                  filteredPrioritySubjects[n].sections[k].campusDescription # selectedCampus

\* the priority subjects left without sections by the filter
EmptiedPriority ==
    {n \in 1..Len(prioritySubjects) :
        KeptPositions(prioritySubjects[n].sections, onlyOpenSections, selectedCampus) = {}}

\* C9: when some priority subject has no section after filtering, the call
\* returns no schedule and exactly one message per such subject, naming it,
\* and neither the priority search, the diagnostics nor the candidate
\* augmentation has run.
C9_InvalidPriorityAbortsBeforeSearch ==
    (Returned /\ EmptiedPriority # {}) =>
        /\ result.schedules = <<>>
        /\ Len(result.errors) = Cardinality(EmptiedPriority)
        /\ \A n \in EmptiedPriority :
               Cardinality({m \in 1..Len(result.errors) :
                               /\ result.errors[m].kind = "priorityWithoutSections"
                               /\ result.errors[m].subject1 = prioritySubjects[n].id}) = 1
        /\ steps = <<"filterSubjects", "filterSubjects">>
        /\ prioritySchedules = <<>>

\* C9 witness: a call with two priority subjects, one of them emptied by the
\* filter, and a candidate subject, has returned
C9_Witness ==
    /\ Returned
    /\ Len(prioritySubjects) = 2
    /\ Cardinality(EmptiedPriority) = 1
    /\ Len(candidateSubjects) >= 1
    /\ Len(result.errors) = 1

\* C10 (as claimed): the message of an emptied priority subject states the
\* filter that emptied it: "none open" when the onlyOpen step removed every
\* section, "none at the campus" only when the campus step is the cause.
C10_ReasonNamesTheEmptyingFilter ==
    Returned =>
        \A m \in 1..Len(result.errors) :
            result.errors[m].kind = "priorityWithoutSections" =>
                \E n \in EmptiedPriority :
                    LET before == prioritySubjects[n].sections
                        emptiedByOpen ==
                            /\ Len(before) > 0
                            /\ KeptPositions(before, onlyOpenSections, "") = {}
                    IN  /\ result.errors[m].subject1 = prioritySubjects[n].id
                        /\ emptiedByOpen => result.errors[m].reason = "abiertas"
                        /\ result.errors[m].reason = "campus" => ~emptiedByOpen

----------------------------------------------------------------------------
(* Outcomes of generatePossibleSchedulesWithCandidates *)

NoSubjectsGiven == Len(prioritySubjects) = 0 /\ Len(candidateSubjects) = 0

\* C11: when both the priority list and the candidate list are empty, the call
\* returns at once with no schedule and exactly one guidance message; no
\* filtering, search, diagnostics or augmentation has run.
C11_EmptySelectionRejectedAtOnce ==
    NoSubjectsGiven =>
        /\ pc \in {"start", "done"}
        /\ steps = <<>>
        /\ filteredPrioritySubjects = <<>> /\ filteredCandidateSubjects = <<>>
        /\ prioritySchedules = <<>>
        /\ Returned =>
               /\ result.schedules = <<>>
               /\ Len(result.errors) = 1
               /\ result.errors[1].kind = "selectAtLeastOne"

\* C11 witness: a call without subjects, with both filter options set, has
\* returned
C11_Witness ==
    /\ Returned
    /\ NoSubjectsGiven
    /\ onlyOpenSections /\ selectedCampus # ""
    /\ Len(result.errors) = 1

\* C12 (as claimed): with no priority subject and at least one candidate
\* subject, the priority search yields the empty assignment and the call
\* returns at least one schedule and no error.
C12_CandidatesOnlyYieldsSchedules ==
    (Returned /\ Len(prioritySubjects) = 0 /\ Len(candidateSubjects) >= 1) =>
        /\ prioritySchedules = << <<>> >>
        /\ Len(result.schedules) >= 1
        /\ result.errors = <<>>

\* the three outcomes of a call
OutcomeSchedules ==
    result.schedules # <<>> /\ result.errors = <<>>

OutcomeDiagnostics ==
    /\ result.schedules = <<>> /\ result.errors # <<>>
    /\ result.errors[1].kind = "noScheduleWithoutConflicts"

OutcomeRejection ==
    /\ result.schedules = <<>> /\ result.errors # <<>>
    /\ \A m \in 1..Len(result.errors) :
           result.errors[m].kind \in {"selectAtLeastOne", "priorityWithoutSections"}

\* C13: every result is exactly one of: at least one schedule and no error;
\* no schedule and diagnostic messages; no schedule and an input-rejection
\* message.  So schedules is non-empty iff errors is empty.
C13_ExactlyOneOutcome ==
    Returned =>
        /\ (result.schedules # <<>>) <=> (result.errors = <<>>)
        /\ Cardinality({o \in {"schedules", "diagnostics", "rejection"} :
               CASE o = "schedules" -> OutcomeSchedules
                 [] o = "diagnostics" -> OutcomeDiagnostics
                 [] o = "rejection" -> OutcomeRejection}) = 1

\* C13 witness: a call with two or more priority subjects that cannot be
\* combined and a candidate subject returned diagnostics and no schedule
C13_Witness ==
    /\ Returned
    /\ Ran("analyzeScheduleConflicts")
    /\ Len(prioritySubjects) >= 2 /\ Len(candidateSubjects) >= 1
    /\ OutcomeDiagnostics
    /\ Len(result.errors) > 1

----------------------------------------------------------------------------
(* Properties of the conflict diagnostics *)

SearchFoundNothing ==
    /\ Returned
    /\ Ran("generateCompatibleCombinationsWithSpecificSections")
    /\ Len(prioritySchedules) = 0

\* the pairs i < j of filtered priority subjects without any compatible pair
\* of sections
IncompatiblePairs ==
    {p \in (1..Len(filteredPrioritySubjects)) \X (1..Len(filteredPrioritySubjects)) :
        /\ p[1] < p[2]
        /\ \A a \in 1..Len(filteredPrioritySubjects[p[1]].sections) :
               \A b \in 1..Len(filteredPrioritySubjects[p[2]].sections) :
                   sectionsConflict(filteredPrioritySubjects[p[1]].sections[a],
                                    filteredPrioritySubjects[p[2]].sections[b])}

\* the positions of the messages of a kind in the errors list
ErrorsOfKind(kind) == {m \in 1..Len(result.errors) : result.errors[m].kind = kind}

\* C14 (as claimed): whenever the priority search returns no assignment, the
\* errors list is, in order: the summary line; one line per wholly
\* incompatible pair of priority subjects, each followed by its conflict
\* details; and then the three remediation suggestions (other sections,
\* demote to candidate, official source).  The two heading lines of the code
\* are allowed anywhere before the suggestions.
C14_DiagnosticsOrder ==
    SearchFoundNothing =>
        LET e == result.errors
            n == Len(e)
        IN  /\ n >= 4
            /\ e[1].kind = "noScheduleWithoutConflicts"
            /\ Cardinality(ErrorsOfKind("conflictPair")) = Cardinality(IncompatiblePairs)
            /\ \A m \in ErrorsOfKind("conflictDetail") :
                   /\ e[m - 1].kind \in {"conflictPair", "conflictDetail"}
                   /\ e[m - 1].subject1 = e[m].subject1
                   /\ e[m - 1].subject2 = e[m].subject2
            /\ e[n - 2].kind = "suggestOtherSections"
            /\ e[n - 1].kind = "suggestCandidate"
            /\ e[n].kind = "suggestOfficialSystem"
            /\ \A m \in 2..(n - 3) :
                   e[m].kind \in {"conflictsFound", "conflictPair", "conflictDetail",
                                  "suggestionsHeader"}

\* C15: the diagnostics report a pair of priority subjects (i < j) iff no
\* section of the first is compatible with any section of the second, i.e.
\* iff hasCompatibleSections is false; such a pair is reported exactly once and
\* no other pair is reported.
C15_PairsReportedIffNoCompatibleSections ==
    (Returned /\ Ran("analyzeScheduleConflicts")) =>
        /\ \A i, j \in 1..Len(filteredPrioritySubjects) :
               i < j =>
                   LET subject1 == filteredPrioritySubjects[i]
                       subject2 == filteredPrioritySubjects[j]
                       reported == {m \in ErrorsOfKind("conflictPair") :
                                       /\ result.errors[m].subject1 = subject1.id
                                       /\ result.errors[m].subject2 = subject2.id}
                   IN  /\ Cardinality(reported) =
                              IF <<i, j>> \in IncompatiblePairs THEN 1 ELSE 0
                       /\ (<<i, j>> \in IncompatiblePairs)
                              <=> ~hasCompatibleSections(subject1, subject2)
        /\ Cardinality(ErrorsOfKind("conflictPair")) = Cardinality(IncompatiblePairs)

\* C15 witness: the diagnostics ran on three priority subjects and reported
\* exactly one pair, one with more than one pair of sections, and left the
\* two other pairs out
C15_Witness ==
    /\ Returned /\ Ran("analyzeScheduleConflicts")
    /\ Len(filteredPrioritySubjects) = 3
    /\ Cardinality(IncompatiblePairs) = 1
    /\ Cardinality(ErrorsOfKind("conflictPair")) = 1
    /\ \E p \in IncompatiblePairs :
           Len(filteredPrioritySubjects[p[1]].sections)
               * Len(filteredPrioritySubjects[p[2]].sections) >= 2

----------------------------------------------------------------------------
(* Properties of repeated calls and of the arguments *)

C18_ArgumentsUnchanged ==
    [][/\ prioritySubjects' = prioritySubjects
       /\ candidateSubjects' = candidateSubjects]_vars

\* C18 witness: a call has returned after the filter dropped sections of a
\* priority subject and of a candidate subject, and the arguments still have
\* more sections than the filtered lists
C18_Witness ==
    /\ Returned /\ Filtered
    /\ \E n \in 1..Len(prioritySubjects) :
           Len(filteredPrioritySubjects[n].sections) < Len(prioritySubjects[n].sections)
    /\ \E n \in 1..Len(candidateSubjects) :
           Len(filteredCandidateSubjects[n].sections) < Len(candidateSubjects[n].sections)

----------------------------------------------------------------------------
(* Properties of the conflict details *)

DayName(d) ==
    CASE d = "monday" -> "lunes"
      [] d = "tuesday" -> "martes"
      [] d = "wednesday" -> "miercoles"
      [] d = "thursday" -> "jueves"
      [] d = "friday" -> "viernes"
      [] d = "saturday" -> "sabado"
      [] d = "sunday" -> "domingo"

\* an entry of a conflict description names the shared weekdays and the two
\* time ranges of some pair of meetings of the two sections that overlap
NamesAnOverlap(entry, section1, section2) ==
    \E mt1 \in MeetingTimes(section1) : \E mt2 \in MeetingTimes(section2) :
        /\ ActiveDays(mt1) \cap ActiveDays(mt2) # {}
        /\ Range(entry.sharedDays) = {DayName(d) : d \in ActiveDays(mt1) \cap ActiveDays(mt2)}
        /\ toMinutes(mt1.beginTime) < toMinutes(mt2.endTime)
        /\ toMinutes(mt2.beginTime) < toMinutes(mt1.endTime)
        /\ entry.time1 = <<formatTime(mt1.beginTime), formatTime(mt1.endTime)>>
        /\ entry.time2 = <<formatTime(mt2.beginTime), formatTime(mt2.endTime)>>

ReturnedSpecificConflictInfo == pcPure = "return" /\ fn = "getSpecificConflictInfo"

ReturnedAnalysis == pcPure = "return" /\ fn = "analyzeScheduleConflicts"

InfoOfKind(kind) == {m \in 1..Len(info) : info[m].kind = kind}

\* C16: getSpecificConflictInfo(s1, s2) is non-empty exactly when
\* sectionsConflict(s1, s2) is true, and each of its entries names the shared
\* weekdays and both time ranges of an overlapping pair of meetings; for a
\* pair of subjects reported as incompatible at least one conflict detail is
\* emitted, and every conflicting pair of their sections has a detail with
\* that description.
C16_ConflictDetailsForReportedPairs ==
    /\ ReturnedSpecificConflictInfo =>
           /\ (info # <<>>) <=> sectionsConflict(args[1], args[2])
           /\ \A m \in 1..Len(info) : NamesAnOverlap(info[m], args[1], args[2])
    /\ (ReturnedAnalysis /\ InfoOfKind("conflictPair") # {}) =>
           /\ InfoOfKind("conflictDetail") # {}
           /\ \A a \in 1..Len(args[1].sections) : \A b \in 1..Len(args[2].sections) :
                  LET section1 == args[1].sections[a]
                      section2 == args[2].sections[b]
                  IN  sectionsConflict(section1, section2) =>
                          \E m \in InfoOfKind("conflictDetail") :
                              /\ info[m].subject1 = args[1].id
                              /\ info[m].subject2 = args[2].id
                              /\ info[m].detail[1].nrc1 = nrcOf(section1)
                              /\ info[m].detail[1].nrc2 = nrcOf(section2)
                              /\ info[m].detail[1].info # <<>>
                              /\ \A k \in 1..Len(info[m].detail[1].info) :
                                     NamesAnOverlap(info[m].detail[1].info[k],
                                                    section1, section2)
    /\ (ReturnedAnalysis /\ InfoOfKind("conflictPair") = {}) =>
           InfoOfKind("conflictDetail") = {}

\* C16 witness: the diagnostics reported a pair of subjects with two sections
\* each and emitted a detail for each of the four conflicting pairs of sections
C16_Witness ==
    /\ ReturnedAnalysis
    /\ InfoOfKind("conflictPair") # {}
    /\ Len(args[1].sections) = 2 /\ Len(args[2].sections) = 2
    /\ Cardinality(InfoOfKind("conflictDetail")) = 4

----------------------------------------------------------------------------
(* Properties of the hybrid selector *)

\* the engine is being called, or has just returned, with the lists built
\* from the current selectedItems
EngineCalled == pc \in {"start", "filtered", "searched", "done"}

\* the subjects handed to the engine, both roles
HandedSubjects == prioritySubjects \o candidateSubjects

SectionIds(sections) == {sections[k].id : k \in 1..Len(sections)}

\* the ids of the sections of catalog subject c that are selected one by one,
\* in a mode of modes
SelectedSectionIds(c, modes) ==
    {selectedItems[n].section :
        n \in {m \in 1..Len(selectedItems) :
                  /\ selectedItems[m].type = "section"
                  /\ selectedItems[m].subject = c
                  /\ selectedItems[m].selectionType \in modes}}

SelectedAsWhole(c, modes) ==
    \E n \in 1..Len(selectedItems) :
        /\ selectedItems[n].type = "subject"
        /\ selectedItems[n].subject = c
        /\ selectedItems[n].selectionType \in modes

BothModes == {"priority", "candidate"}

\* C19 (as claimed): whatever was toggled and generated before, every subject
\* of the catalog the component holds has its original section list; and a
\* subject that is selected as a whole, with none of its sections selected one
\* by one, is handed to the engine with all its sections.
C19_CatalogSectionListsKept ==
    /\ \A c \in 1..Len(componentSubjects) :
           componentSubjects[c].sections = Catalog[c].sections
    /\ EngineCalled =>
           \A c \in 1..Len(componentSubjects) :
               (SelectedAsWhole(c, BothModes) /\ SelectedSectionIds(c, BothModes) = {}) =>
                   \E n \in 1..Len(HandedSubjects) :
                       /\ HandedSubjects[n].id = Catalog[c].id
                       /\ HandedSubjects[n].sections = Catalog[c].sections

\* C20 (as claimed): a subject selected both as a whole and through some of
\* its sections is handed to the engine once, with exactly the sections
\* selected one by one, and no returned schedule holds another section of it.
C20_NarrowedListWins ==
    EngineCalled =>
        \A c \in 1..Len(componentSubjects) :
            (SelectedAsWhole(c, BothModes) /\ SelectedSectionIds(c, BothModes) # {}) =>
                /\ Cardinality({n \in 1..Len(HandedSubjects) :
                                   HandedSubjects[n].id = Catalog[c].id}) = 1
                /\ \A n \in 1..Len(HandedSubjects) :
                       HandedSubjects[n].id = Catalog[c].id =>
                           SectionIds(HandedSubjects[n].sections)
                               = SelectedSectionIds(c, BothModes)
                /\ Returned =>
                       \A k \in 1..Len(result.schedules) :
                           \A i \in 1..Len(result.schedules[k]) :
                               result.schedules[k][i].subjectId = Catalog[c].id =>
                                   result.schedules[k][i].section.id
                                       \in SelectedSectionIds(c, BothModes)

----------------------------------------------------------------------------
(* Properties of the priority search, call by call *)

SearchReturned == searchPc = "returned"

\* the call at depth n of the stack has index n - 1: every recursive call is
\* made with the index of its caller plus one, and no index passes the number
\* of subjects
IndexIncreasesAndIsBounded ==
    \A n \in 1..Len(callStack) :
        /\ callStack[n].index = n - 1
        /\ callStack[n].index <= Len(searchSubjects)

\* C21: the priority search always terminates: for every list of subjects
\* with finite section lists every call of combineCompatible reaches a
\* return, the index growing by one with each recursive call and never
\* passing the number of subjects.
C21_SearchTerminates ==
    /\ <>SearchReturned
    /\ []IndexIncreasesAndIsBounded
    /\ [](SearchReturned => callStack = <<>>)

\* C21 witness: a search over three subjects has returned combinations, so the
\* recursion went three calls deep and every call returned
C21_Witness ==
    /\ SearchReturned
    /\ Len(searchSubjects) = 3
    /\ Len(searchReturn) >= 2
    /\ \A n \in 1..Len(searchReturn) : Len(searchReturn[n]) = 3

\* C22: at every call combineCompatible(index, currentSchedule),
\* currentSchedule holds exactly one section for each of the subjects at the
\* positions 0..index-1, in subject order, and no two of its sections
\* conflict; so no conflicting partial assignment is ever extended.
C22_PartialAssignmentsAreConflictFree ==
    \A n \in 1..Len(callStack) :
        LET index == callStack[n].index
            currentSchedule == callStack[n].currentSchedule
        IN  /\ Len(currentSchedule) = index
            /\ \A i \in 1..Len(currentSchedule) :
                   /\ i <= Len(searchSubjects)
                   /\ currentSchedule[i].subjectId = searchSubjects[i].id
                   /\ \E k \in 1..Len(searchSubjects[i].sections) :
                          currentSchedule[i].section = searchSubjects[i].sections[k]
            /\ \A i, j \in 1..Len(currentSchedule) :
                   i # j => ~sectionsConflict(currentSchedule[i].section,
                                              currentSchedule[j].section)

\* C22 witness: a call at index 2 holds two sections that do not conflict,
\* after a conflicting section of the second subject was passed over
C22_Witness ==
    /\ searchPc = "running"
    /\ Len(callStack) = 3
    /\ Len(TopFrame.currentSchedule) = 2
    /\ callStack[2].k = 2
    /\ ~isCompatible(callStack[2].currentSchedule, searchSubjects[2].sections[1])

\* the search, call by call, returns what the operator of the same name gives
SearchAgreesWithOperator ==
    SearchReturned =>
        searchReturn = generateCompatibleCombinationsWithSpecificSections(searchSubjects)

----------------------------------------------------------------------------
(* Properties of the candidate augmentation *)

\* the priority assignment a returned schedule starts with: its position in
\* prioritySchedules, 0 when it starts with none
Owner(schedule) ==
    LET L == Len(filteredPrioritySubjects)
        owners == {k \in 1..Len(prioritySchedules) :
                      /\ Len(schedule) >= L
                      /\ SubSeq(schedule, 1, L) = prioritySchedules[k]}
    IN  IF owners = {} THEN 0 ELSE CHOOSE k \in owners : TRUE

\* C23: candidate subjects never remove a valid priority schedule: when the
\* priority search yields at least one assignment, every returned schedule
\* starts with one priority assignment, the schedules of one priority
\* assignment are together and the groups are in the order of the priority
\* assignments, the first schedule of each group is the priority assignment
\* itself, and there are at least as many returned schedules as priority
\* assignments.
C23_PrioritySchedulesKept ==
    (Returned /\ Len(prioritySchedules) >= 1) =>
        LET out == result.schedules IN
        /\ \A n \in 1..Len(out) : Owner(out[n]) # 0
        /\ \A n \in 1..(Len(out) - 1) : Owner(out[n]) <= Owner(out[n + 1])
        /\ \A k \in 1..Len(prioritySchedules) :
               \E n \in 1..Len(out) :
                   /\ out[n] = prioritySchedules[k]
                   /\ \A m \in 1..(n - 1) : Owner(out[m]) < k
        /\ Len(out) >= Len(prioritySchedules)

\* C23 witness: a call with two or more priority assignments returned more
\* schedules than that, some of them with two candidate sections added
C23_Witness ==
    /\ Returned
    /\ Ran("addCandidateSubjects")
    /\ Len(prioritySchedules) >= 2
    /\ Len(result.schedules) > Len(prioritySchedules)
    /\ \E n \in 1..Len(result.schedules) :
           Len(result.schedules[n]) = Len(filteredPrioritySubjects) + 2

----------------------------------------------------------------------------
(* Properties of the deduplicator *)

ReturnedDedup == pcPure = "return" /\ fn = "removeDuplicateSchedules"

\* the positions of a list of schedules whose multiset of section ids occurs
\* at no earlier position
FirstOfItsMultiset(schedules) ==
    {n \in 1..Len(schedules) :
        \A m \in 1..(n - 1) : IdBag(schedules[m]) # IdBag(schedules[n])}

\* C24: removeDuplicateSchedules returns the subsequence of its input that
\* keeps, in input order, the first schedule of each distinct multiset of
\* section ids and drops every later schedule with the same multiset,
\* whatever the order of its items; applied to its own result it changes
\* nothing.
C24_DedupKeepsFirstOfEachMultiset ==
    ReturnedDedup =>
        /\ info = Pick(args[1], FirstOfItsMultiset(args[1]))
        /\ removeDuplicateSchedules(info) = info

\* C24 witness: of three schedules the third, which has the items of the first
\* in the other order, was dropped and the two others were kept
C24_Witness ==
    /\ ReturnedDedup
    /\ Len(args[1]) = 3
    /\ Len(args[1][1]) = 2
    /\ args[1][3] = <<args[1][1][2], args[1][1][1]>>
    /\ args[1][3] # args[1][1]
    /\ info = <<args[1][1], args[1][2]>>

----------------------------------------------------------------------------
(* Properties of the folding of the candidates, before deduplication *)

\* the set of the section ids of a schedule
IdSet(schedule) == {schedule[n].section.id : n \in 1..Len(schedule)}

\* two schedules of a list have the same set of section ids
HasSameIdSetTwice(schedules) ==
    \E i, j \in 1..Len(schedules) : i # j /\ IdSet(schedules[i]) = IdSet(schedules[j])

\* the candidate subjects are distinct from the priority subjects (they are
\* distinct from each other, and every section id is unique, in every call)
CandidatesApart(priority, candidates) ==
    \A i \in 1..Len(priority) : \A j \in 1..Len(candidates) :
        priority[i].id # candidates[j].id

\* C25 (as claimed): with the filter settings of the call, there are priority
\* subjects and candidate subjects, distinct from each other and from the
\* priority subjects and with unique section ids, for which the folding of
\* addCandidateSubjects holds, before deduplication, two partial schedules with
\* the same set of section ids, so that removeDuplicateSchedules removes at
\* least one schedule.
C25_FoldingCanProduceDuplicates ==
    \E priority \in SubjectLists(MaxPriority) :
        \E candidates \in SubjectLists(MaxCandidates) :
            /\ CandidatesApart(priority, candidates)
            /\ LET schedules ==
                       generateCompatibleCombinationsWithSpecificSections(
                           filterSubjects(priority, onlyOpenSections, selectedCampus))
                   filtered == filterSubjects(candidates, onlyOpenSections, selectedCampus)
               IN  \E k \in 1..Len(schedules) :
                       LET folded == foldCandidates(<<schedules[k]>>, filtered, 1)
                       IN  /\ HasSameIdSetTwice(folded)
                           /\ Len(removeDuplicateSchedules(folded)) < Len(folded)

\* C25 (amended): for candidate subjects distinct from each other and from
\* the priority subjects, with unique section ids, the folding of
\* addCandidateSubjects never holds two partial schedules with the same set of
\* section ids (each choice of candidates is reached in the order of the
\* candidate list only), so removeDuplicateSchedules removes nothing.
C25_FoldingProducesNoDuplicates ==
    (Ran("addCandidateSubjects")
        /\ CandidatesApart(filteredPrioritySubjects, filteredCandidateSubjects)) =>
        \A k \in 1..Len(prioritySchedules) :
            LET folded == foldCandidates(<<prioritySchedules[k]>>,
                                         filteredCandidateSubjects, 1)
            IN  /\ ~HasSameIdSetTwice(folded)
                /\ removeDuplicateSchedules(folded) = folded

\* C25 witness: an augmentation with two candidate subjects, distinct from the
\* priority subjects, both of which were added to one schedule, each of them
\* also alone
C25_Witness ==
    /\ Returned /\ Ran("addCandidateSubjects")
    /\ Len(filteredCandidateSubjects) = 2
    /\ CandidatesApart(filteredPrioritySubjects, filteredCandidateSubjects)
    /\ LET L == Len(filteredPrioritySubjects)
           out == result.schedules
       IN  /\ \E n \in 1..Len(out) : Len(out[n]) = L + 2
           /\ \A c \in 1..2 : \E n \in 1..Len(out) :
                  /\ Len(out[n]) = L + 1
                  /\ out[n][L + 1].subjectId = filteredCandidateSubjects[c].id

----------------------------------------------------------------------------
(* Properties of candidate subjects left without sections *)

\* the candidate subjects left without sections by the filter
EmptiedCandidates ==
    {n \in 1..Len(candidateSubjects) :
        KeptPositions(candidateSubjects[n].sections, onlyOpenSections, selectedCampus) = {}}

\* the priority search of the call finds an assignment
PrioritySearchSucceeds ==
    /\ EmptiedPriority = {}
    /\ generateCompatibleCombinationsWithSpecificSections(
           filterSubjects(prioritySubjects, onlyOpenSections, selectedCampus)) # <<>>

\* what the call returns for the same priority subjects and the given
\* candidate subjects
SchedulesWithCandidates(candidates) ==
    LET schedules == generateCompatibleCombinationsWithSpecificSections(
                         filterSubjects(prioritySubjects, onlyOpenSections, selectedCampus))
        filtered == filterSubjects(candidates, onlyOpenSections, selectedCampus)
    IN  IF Len(filtered) = 0 THEN schedules ELSE finalSchedulesOf(schedules, filtered)

\* C26: a candidate subject whose section list is empty after filtering is
\* never an error: when the priority search succeeds, the call returns no
\* error message, and the schedules it returns are those of the call without
\* that candidate subject.
C26_EmptiedCandidateIsIgnored ==
    (Returned /\ PrioritySearchSucceeds /\ EmptiedCandidates # {}) =>
        /\ result.errors = <<>>
        /\ result.schedules # <<>>
        /\ result.schedules =
               SchedulesWithCandidates(
                   Pick(candidateSubjects,
                        (1..Len(candidateSubjects)) \ EmptiedCandidates))
        /\ \A n \in EmptiedCandidates :
               result.schedules =
                   SchedulesWithCandidates(
                       Pick(candidateSubjects, (1..Len(candidateSubjects)) \ {n}))

\* C26 witness: a call whose first candidate subject lost all its sections to
\* the filter and whose second candidate subject was added to a schedule has
\* returned
C26_Witness ==
    /\ Returned /\ PrioritySearchSucceeds
    /\ Len(prioritySubjects) >= 1 /\ Len(candidateSubjects) = 2
    /\ EmptiedCandidates = {1}
    /\ Len(candidateSubjects[1].sections) >= 1
    /\ \E n \in 1..Len(result.schedules) :
           \E i \in 1..Len(result.schedules[n]) :
               result.schedules[n][i].subjectId = candidateSubjects[2].id

----------------------------------------------------------------------------
(* Symmetry of the conflict test *)

ReturnedCombinations ==
    pcPure = "return" /\ fn = "generateCompatibleCombinationsWithSpecificSections"

\* C27: sectionsConflict is symmetric: sectionsConflict(a, b) =
\* sectionsConflict(b, a) for all sections a and b; and the search, which
\* tests each new section against the chosen ones in one direction only,
\* returns combinations that are free of conflicts for every ordered pair.
C27_SectionsConflictSymmetric ==
    /\ ReturnedSectionsConflict => ret = sectionsConflict(args[2], args[1])
    /\ ReturnedCombinations =>
           \A n \in 1..Len(info) :
               \A i, j \in 1..Len(info[n]) :
                   i # j => /\ ~sectionsConflict(info[n][i].section, info[n][j].section)
                            /\ ~sectionsConflict(info[n][j].section, info[n][i].section)

\* C27 witness: two different sections, the first with one meeting and the
\* second with two, of which a meeting without time comes first, were found
\* to conflict
C27_Witness ==
    /\ ReturnedSectionsConflict
    /\ ret
    /\ Len(args[1].meetingsFaculty) = 1
    /\ Len(args[2].meetingsFaculty) = 2
    /\ args[2].meetingsFaculty[1].meetingTime = Null
    /\ sectionsConflict(args[2], args[1])

\* a search over two subjects of two sections each returned some but not all
\* pairs of sections
CombinationsPartlyRefused ==
    /\ ReturnedCombinations
    /\ Len(args[1].sections) = 2 /\ Len(args[2].sections) = 2
    /\ Len(info) \in 1..3

----------------------------------------------------------------------------
(* Properties of the asynchronous handlers of the selector *)

NoRemovalPending == \A k \in 1..Len(pending) : pending[k].op # "splice"

\* C28 (as claimed): after onClearAll was invoked, on any selection, and all
\* pending removal animations have completed, selectedItems contains no
\* item, whether or not the cards of the items are in the page.
C28_ClearAllEmptiesTheSelection ==
    (clearAllInvoked /\ NoRemovalPending) => selectedItems = <<>>

\* the id of an entry of selectedItems
ItemId(item) == IF item.type = "subject" THEN item.subject ELSE item.section

\* the index a suspended handler keeps designates the item it looked up
DesignatesItsItem(p) ==
    /\ p.index \in 1..Len(selectedItems)
    /\ selectedItems[p.index].type = p.type
    /\ ItemId(selectedItems[p.index]) = p.id

FiltersReturned == cacheCalls > 0

\* C30 (as claimed): after any sequence of applyFilters calls with varying
\* course lists and filters, applyFilters(courses, filters) returns the list
\* that applying the filters to that course list without the cache gives, and
\* the cache holds no more than 100 entries after a call returns.
C30_CacheIsTransparent ==
    FiltersReturned =>
        /\ cacheReturn = filterCourses(cacheCourses, cacheFilters)
        /\ Len(searchCache) <= CacheLimit

\* the part of C30 about the size of the cache alone
CacheStaysWithinLimit == Len(searchCache) <= CacheLimit

\* a call has trimmed the cache
CacheWasTrimmed ==
    /\ FiltersReturned
    /\ Len(searchCache) = CacheKeep

\* a call was answered from the cache with the list the filters give
CacheHitWasRight ==
    /\ cacheCalls > 1
    /\ Len(searchCache) = 1
    /\ cacheReturn = filterCourses(cacheCourses, cacheFilters)
    /\ cacheReturn # <<>>

====
